---- MODULE Spec2Model ----
(***************************************************************************)
(* Motion scheduler of the six-servo tester firmware (src/main.ino, the    *)
(* LittleFS build that starts at line 612): power model, pulse scheduler,  *)
(* sequence engine, calibration model and the control loop.                *)
(*                                                                         *)
(* A String is a sequence of one-character strings.  The 32-bit            *)
(* millisecond counter (unsigned long on the ESP32) is kept as the signed  *)
(* reading of its bit pattern, so that every value fits the checker's      *)
(* integers: counter value u is stored as u when u < 2^31 and as u - 2^32  *)
(* otherwise.  Adding wraps as the hardware does and the cast              *)
(* (long)(now - end) is the wrapped difference of the two patterns.        *)
(***************************************************************************)
EXTENDS Integers, Sequences, FiniteSets, TLC

VARIABLES
  currentPower,       \* int  currentPower[SERVO_COUNT]
  servoAttached,      \* bool servoAttached[SERVO_COUNT]
  servoPulseActive,   \* bool servoPulseActive[SERVO_COUNT]
  servoPulseEndTime,  \* unsigned long servoPulseEndTime[SERVO_COUNT]
  SERVO_PINS,         \* uint8_t SERVO_PINS[SERVO_COUNT]
  servoFullTurnMs,    \* int  servoFullTurnMs[SERVO_COUNT]
  servoCurrentDeg,    \* long servoCurrentDeg[SERVO_COUNT]
  servoCenterDeg,     \* long servoCenterDeg[SERVO_COUNT]
  defaultPowerStep,   \* int defaultPowerStep
  pulseDurationMs,    \* int pulseDurationMs
  seqSteps,           \* SeqStep seqSteps[MAX_SEQ_STEPS]: the slots written so far
  seqStepCount,       \* uint16_t
  seqStepIndex,       \* uint16_t
  seqRunning,         \* bool
  seqStepActive,      \* bool
  seqStepEndTime,     \* unsigned long
  millis,             \* the millisecond counter millis() reads
  last,               \* the operation that produced this state, with its arguments and reply
  reqCount            \* requests served so far

servoVars == <<currentPower, servoAttached, servoPulseActive, servoPulseEndTime>>
calibVars == <<servoFullTurnMs, servoCurrentDeg, servoCenterDeg>>
configVars == <<SERVO_PINS, defaultPowerStep, pulseDurationMs>>
seqVars == <<seqSteps, seqStepCount, seqStepIndex, seqRunning, seqStepActive, seqStepEndTime>>
vars == <<servoVars, calibVars, configVars, seqVars, millis, last, reqCount>>

----------------------------------------------------------------------------
(* Program constants *)

SERVO_COUNT == 6
MAX_SEQ_STEPS == 256
SERVO_MIN_US == 1000
SERVO_MAX_US == 2000
SERVO_NEUTRAL_US == 1500
GPIO_OPTIONS == {2, 4, 5, 12, 13, 14, 15, 16, 17, 18, 19, 21, 22, 23, 25, 26, 27, 32, 33}
DefaultPins == [i \in 0..(SERVO_COUNT - 1) |->
                  CASE i = 0 -> 13 [] i = 1 -> 14 [] i = 2 -> 25
                    [] i = 3 -> 26 [] i = 4 -> 27 [] OTHER -> 32]

Servos == 0..(SERVO_COUNT - 1)

\* Largest value of a 32-bit long; the smallest is -MaxInt32 - 1.
MaxInt32 == 2147483647

----------------------------------------------------------------------------
(* Bounds of the model *)

\* The counter starts this many milliseconds before it wraps to zero.
WrapLead == 10
\* Milliseconds the counter may advance in one behaviour.
MaxElapsed == 20
\* Requests served in one behaviour.
MaxRequests == 2

----------------------------------------------------------------------------
(* Integer helpers *)

\* Mutant: only the lower limit is applied.
clampInt_NoUpper(value, minVal, maxVal) ==
  IF value < minVal THEN minVal ELSE value

clampInt(value, minVal, maxVal) ==
  IF value < minVal THEN minVal
  ELSE IF value > maxVal THEN maxVal
  ELSE value

abs(x) == IF x < 0 THEN -x ELSE x

\* millis() + d in 32-bit unsigned arithmetic, 0 <= d <= MaxInt32.
AddMillis(t, d) ==
  IF t > MaxInt32 - d
    THEN (t - MaxInt32 - 1) + (d - MaxInt32 - 1)
    ELSE t + d

\* Mutant: the two counter values are compared as unsigned numbers.
TimeReached_Unsigned(now, end) ==
  IF (now >= 0) = (end >= 0) THEN now >= end ELSE now < 0

\* Mutant: the deadline itself does not count as reached.
TimeReached_Strict(now, end) ==
  IF (now >= 0) = (end >= 0) THEN now - end > 0
  ELSE IF now >= 0 THEN now <= MaxInt32 + end
  ELSE now < (-MaxInt32 - 1) + end

\* (long)(now - end) >= 0
TimeReached(now, end) ==
  IF (now >= 0) = (end >= 0) THEN now - end >= 0
  ELSE IF now >= 0 THEN now <= MaxInt32 + end
  ELSE now < (-MaxInt32 - 1) + end

\* Arduino map(x, in_min, in_max, out_min, out_max); C division truncates toward zero.
TruncDiv(a, b) == IF a >= 0 THEN a \div b ELSE -((-a) \div b)

map(x, in_min, in_max, out_min, out_max) ==
  TruncDiv((x - in_min) * (out_max - out_min), in_max - in_min) + out_min

----------------------------------------------------------------------------
(* IEEE-754 single precision, as far as computeDurationForAngle uses it:     *)
(* non-negative normal values, round to nearest even.  A float is <<m, e>>, *)
(* the value m * 2^e, with m = 0 or 2^23 <= m < 2^24.                       *)

RECURSIVE Pow2(_)
Pow2(n) == IF n = 0 THEN 1 ELSE 2 * Pow2(n - 1)

Two22 == Pow2(22)
Two23 == Pow2(23)
Two24 == Pow2(24)

\* m * 2^e with 2^23 <= m < 2^25 brought to a 24-bit mantissa; sticky says
\* that bits below m were already dropped.
F32Round(m, e, sticky) ==
  IF m < Two24 THEN <<m, e>>
  ELSE LET q == m \div 2
           r == m % 2
           up == r = 1 /\ (sticky \/ q % 2 = 1)
           q2 == IF up THEN q + 1 ELSE q
       IN IF q2 = Two24 THEN <<Two23, e + 2>> ELSE <<q2, e + 1>>

RECURSIVE F32Normalize(_, _)
F32Normalize(m, e) ==
  IF m = 0 THEN <<0, 0>>
  ELSE IF m < Two23 THEN F32Normalize(2 * m, e - 1)
  ELSE <<m, e>>

\* (float)n for an int 0 <= n < 2^24 (exact)
F32FromInt(n) == F32Normalize(n, 0)

\* Long division: the first n quotient bits of rem / d below the binary point.
RECURSIVE F32DivBits(_, _, _, _)
F32DivBits(rem, d, n, acc) ==
  IF n = 0 THEN <<acc, rem>>
  ELSE LET r2 == 2 * rem
           bit == IF r2 >= d THEN 1 ELSE 0
       IN F32DivBits(r2 - bit * d, d, n - 1, 2 * acc + bit)

\* x / y, y > 0
F32Div(x, y) ==
  IF x[1] = 0 THEN <<0, 0>>
  ELSE LET ip == IF x[1] >= y[1] THEN 1 ELSE 0
           qr == F32DivBits(x[1] - ip * y[1], y[1], 24, ip)  \* floor(mx * 2^24 / my)
           q == qr[1]
           sticky == qr[2] # 0
           e == x[2] - y[2] - 24
       IN IF q >= Two24 THEN F32Round(q, e, sticky)
          ELSE \* q in [2^23, 2^24): one more bit decides the rounding
            LET qr2 == F32DivBits(qr[2], y[1], 1, q)
            IN F32Round(qr2[1], e - 1, qr2[2] # 0)

\* x * y
F32Mul(x, y) ==
  IF x[1] = 0 \/ y[1] = 0 THEN <<0, 0>>
  ELSE LET a1 == x[1] \div 4096
           a0 == x[1] % 4096
           b1 == y[1] \div 4096
           b0 == y[1] % 4096
           mid == a1 * b0 + a0 * b1
           lowSum == (mid % 4096) * 4096 + a0 * b0
           lo == lowSum % Two24
           hi == a1 * b1 + (mid \div 4096) + (lowSum \div Two24)
           e == x[2] + y[2]
       IN IF hi >= Two23
            THEN \* mantissa hi, the 24 bits of lo decide
              LET up == lo > Two23 \/ (lo = Two23 /\ hi % 2 = 1)
                  m == IF up THEN hi + 1 ELSE hi
              IN IF m = Two24 THEN <<Two23, e + 25>> ELSE <<m, e + 24>>
            ELSE \* hi in [2^22, 2^23): take one bit of lo into the mantissa
              LET m0 == 2 * hi + (lo \div Two23)
                  r == lo % Two23
                  up == r > Two22 \/ (r = Two22 /\ m0 % 2 = 1)
                  m == IF up THEN m0 + 1 ELSE m0
              IN IF m = Two24 THEN <<Two23, e + 24>> ELSE <<m, e + 23>>

\* (long)x for a float below 2^31: truncation
F32ToLong(x) ==
  IF x[1] = 0 THEN 0
  ELSE IF x[2] >= 0 THEN x[1] * Pow2(x[2])
  ELSE IF -x[2] >= 24 THEN 0
  ELSE x[1] \div Pow2(-x[2])

----------------------------------------------------------------------------
(* Power model and pulse scheduler.  The servo state travels through the    *)
(* helper functions as one record sv = [power, attached, pulseActive,       *)
(* pulseEnd], each field an array over the servos.                          *)

ServoState ==
  [power |-> currentPower, attached |-> servoAttached,
   pulseActive |-> servoPulseActive, pulseEnd |-> servoPulseEndTime]

\* Mutant: a detached servo is not attached.
ensureServoAttached_Skip(sv, index) == sv

ensureServoAttached(sv, index) ==
  IF index >= SERVO_COUNT THEN sv
  ELSE IF ~sv.attached[index] THEN [sv EXCEPT !.attached[index] = TRUE]
  ELSE sv

\* Mutant: the power is mapped without the clamp.
powerToPulse_NoClamp(power) ==
  map(power, -100, 100, SERVO_MIN_US, SERVO_MAX_US)

powerToPulse(power) ==
  map(clampInt(power, -100, 100), -100, 100, SERVO_MIN_US, SERVO_MAX_US)

\* Mutant: every write of a power cancels the armed pulse.
setServoPower_CancelsPulse(sv, index, power) ==
  IF index >= SERVO_COUNT THEN sv
  ELSE LET a == ensureServoAttached(sv, index)
           p == clampInt(power, -100, 100)
       IN [a EXCEPT !.power[index] = p, !.pulseActive[index] = FALSE]

\* Mutant: the power is stored as requested, without the clamp.
setServoPower_NoClamp(sv, index, power) ==
  IF index >= SERVO_COUNT THEN sv
  ELSE LET a == ensureServoAttached(sv, index)
       IN [a EXCEPT !.power[index] = power,
                    !.pulseActive[index] = IF power = 0 THEN FALSE ELSE @]

setServoPower(sv, index, power) ==
  IF index >= SERVO_COUNT THEN sv
  ELSE LET a == ensureServoAttached(sv, index)
           p == clampInt(power, -100, 100)
       IN [a EXCEPT !.power[index] = p,
                    !.pulseActive[index] = IF p = 0 THEN FALSE ELSE @]

\* Mutant: stop attaches a servo that is detached.
stopServo_Toggle(sv, index) ==
  IF index >= SERVO_COUNT THEN sv
  ELSE [sv EXCEPT !.attached[index] = ~@, !.power[index] = 0,
                  !.pulseActive[index] = FALSE]

\* Mutant: the servo is detached but its power is left as it was.
stopServo_KeepPower(sv, index) ==
  IF index >= SERVO_COUNT THEN sv
  ELSE [sv EXCEPT !.attached[index] = FALSE, !.pulseActive[index] = FALSE]

\* Mutant: the armed pulse is not cancelled.
stopServo_KeepPulse(sv, index) ==
  IF index >= SERVO_COUNT THEN sv
  ELSE [sv EXCEPT !.attached[index] = FALSE, !.power[index] = 0]

stopServo(sv, index) ==
  IF index >= SERVO_COUNT THEN sv
  ELSE [sv EXCEPT !.attached[index] = FALSE,
                  !.power[index] = 0,
                  !.pulseActive[index] = FALSE]

\* Mutant: the duration is not limited to 30000 ms.
scheduleServoStop_NoLimit(sv, index, durationMs, now) ==
  IF index >= SERVO_COUNT THEN sv
  ELSE IF durationMs <= 0 THEN [sv EXCEPT !.pulseActive[index] = FALSE]
  ELSE [sv EXCEPT !.pulseActive[index] = TRUE,
                  !.pulseEnd[index] = AddMillis(now, durationMs)]

\* Mutant: a pulse armed on top of an active one is added to its end.
scheduleServoStop_Stack(sv, index, durationMs, now) ==
  IF index >= SERVO_COUNT THEN sv
  ELSE LET d == clampInt(durationMs, 0, 30000)
       IN IF d <= 0 THEN [sv EXCEPT !.pulseActive[index] = FALSE]
          ELSE [sv EXCEPT !.pulseActive[index] = TRUE,
                          !.pulseEnd[index] = IF sv.pulseActive[index]
                                                THEN AddMillis(@, d)
                                                ELSE AddMillis(now, d)]

scheduleServoStop(sv, index, durationMs, now) ==
  IF index >= SERVO_COUNT THEN sv
  ELSE LET d == clampInt(durationMs, 0, 30000)
       IN IF d <= 0 THEN [sv EXCEPT !.pulseActive[index] = FALSE]
          ELSE [sv EXCEPT !.pulseActive[index] = TRUE,
                          !.pulseEnd[index] = AddMillis(now, d)]

\* Mutant: a pulse that has ended stops the servo as stopServo does.
PulseSchedulerStep_Detach(sv, i, now) ==
  IF sv.pulseActive[i] /\ TimeReached(now, sv.pulseEnd[i])
    THEN stopServo(sv, i)
    ELSE sv

\* The body of the scheduler's loop for servo i.
PulseSchedulerStep(sv, i, now) ==
  IF sv.pulseActive[i] /\ TimeReached(now, sv.pulseEnd[i])
    THEN setServoPower([sv EXCEPT !.pulseActive[i] = FALSE], i, 0)
    ELSE sv

RECURSIVE PulseSchedulerLoop(_, _, _)
PulseSchedulerLoop(sv, i, now) ==
  IF i >= SERVO_COUNT THEN sv
  ELSE PulseSchedulerLoop(PulseSchedulerStep(sv, i, now), i + 1, now)

processServoPulseScheduler(sv, now) == PulseSchedulerLoop(sv, 0, now)

\* for (i = 0; i < SERVO_COUNT; i++) setServoPower(i, 0);
RECURSIVE CenterLoop(_, _)
CenterLoop(sv, i) ==
  IF i >= SERVO_COUNT THEN sv ELSE CenterLoop(setServoPower(sv, i, 0), i + 1)

\* for (i = 0; i < SERVO_COUNT; i++) stopServo(i);
RECURSIVE StopLoop(_, _)
StopLoop(sv, i) ==
  IF i >= SERVO_COUNT THEN sv ELSE StopLoop(stopServo(sv, i), i + 1)

----------------------------------------------------------------------------
(* Calibration model *)

\* Mutant: the duration is not scaled by the power.
computeDurationForAngle_NoScale(fullTurnMs, index, angleDeg, absPower) ==
  IF index >= SERVO_COUNT THEN 0
  ELSE IF absPower <= 0 THEN 0
  ELSE LET ft == IF fullTurnMs[index] <= 0 THEN 1000 ELSE fullTurnMs[index]
           a == abs(angleDeg)
           base == F32Mul(F32FromInt(ft), F32Div(F32FromInt(a), F32FromInt(360)))
       IN clampInt(F32ToLong(base), 10, 30000)

computeDurationForAngle(fullTurnMs, index, angleDeg, absPower) ==
  IF index >= SERVO_COUNT THEN 0
  ELSE IF absPower <= 0 THEN 0
  ELSE LET p == clampInt(absPower, 1, 100)
           ft == IF fullTurnMs[index] <= 0 THEN 1000 ELSE fullTurnMs[index]
           a == abs(angleDeg)
           base == F32Mul(F32FromInt(ft), F32Div(F32FromInt(a), F32FromInt(360)))
           scale == F32Div(F32FromInt(100), F32FromInt(p))
           dur == F32ToLong(F32Mul(base, scale))
       IN clampInt(dur, 10, 30000)

----------------------------------------------------------------------------
(* Arduino String and Stream functions the sequence loader uses.  Indices   *)
(* are the C ones, counted from 0.                                          *)

isspace(c) == c \in {" ", "\t", "\n", "\r"}

Digits == {"0", "1", "2", "3", "4", "5", "6", "7", "8", "9"}

DigitValue(c) ==
  CASE c = "0" -> 0 [] c = "1" -> 1 [] c = "2" -> 2 [] c = "3" -> 3 [] c = "4" -> 4
    [] c = "5" -> 5 [] c = "6" -> 6 [] c = "7" -> 7 [] c = "8" -> 8 [] OTHER -> 9

RECURSIVE TrimLeft(_)
TrimLeft(s) == IF s # <<>> /\ isspace(Head(s)) THEN TrimLeft(Tail(s)) ELSE s

RECURSIVE TrimRight(_)
TrimRight(s) ==
  IF s # <<>> /\ isspace(s[Len(s)]) THEN TrimRight(SubSeq(s, 1, Len(s) - 1)) ELSE s

\* String::trim()
trim(s) == TrimRight(TrimLeft(s))

\* String::startsWith(prefix)
startsWith(s, prefix) ==
  Len(s) >= Len(prefix) /\ SubSeq(s, 1, Len(prefix)) = prefix

\* String::indexOf(ch, fromIndex): -1 when ch does not occur at or after fromIndex
RECURSIVE indexOf(_, _, _)
indexOf(s, ch, fromIndex) ==
  IF fromIndex >= Len(s) THEN -1
  ELSE IF s[fromIndex + 1] = ch THEN fromIndex
  ELSE indexOf(s, ch, fromIndex + 1)

\* String::substring(left, right): the characters left .. right - 1
substring(s, left, right) ==
  LET l == IF left > right THEN right ELSE left
      r0 == IF left > right THEN left ELSE right
      r == IF r0 > Len(s) THEN Len(s) ELSE r0
  IN IF l >= Len(s) THEN <<>> ELSE SubSeq(s, l + 1, r)

\* The digits atol() reads, as a number.
RECURSIVE ReadDigits(_, _)
ReadDigits(s, acc) ==
  IF s # <<>> /\ Head(s) \in Digits
    THEN ReadDigits(Tail(s), 10 * acc + DigitValue(Head(s)))
    ELSE acc

\* String::toInt(): atol() of the buffer; white space, a sign, then digits up to
\* the first other character; 0 when there are none.
toInt(s) ==
  LET t == TrimLeft(s)
  IN IF t = <<>> THEN 0
     ELSE IF Head(t) = "-" THEN -ReadDigits(Tail(t), 0)
     ELSE IF Head(t) = "+" THEN ReadDigits(Tail(t), 0)
     ELSE ReadDigits(t, 0)

\* Stream::readStringUntil('\n'): <<the line, what is left of the file>>
readStringUntil(f, terminator) ==
  LET n == indexOf(f, terminator, 0)
  IN IF n < 0 THEN <<f, <<>>>>
     ELSE <<substring(f, 0, n), substring(f, n + 1, Len(f))>>

----------------------------------------------------------------------------
(* Sequence loader: the read loop of handleApiSeqRun.                       *)

\* Mutant: the servo index of a line is not checked.
ParseSeqLine_AnyServo(raw) ==
  LET line == trim(raw)
      c1 == indexOf(line, ",", 0)
      c2 == indexOf(line, ",", c1 + 1)
      idx == toInt(substring(line, 0, c1))
      power == toInt(substring(line, c1 + 1, c2))
      dur == toInt(substring(line, c2 + 1, Len(line)))
  IN IF Len(line) = 0 \/ startsWith(line, <<"#">>) THEN <<FALSE>>
     ELSE IF c1 < 0 \/ c2 < 0 THEN <<FALSE>>
     ELSE <<TRUE, [servo |-> idx,
                   power |-> clampInt(power, -100, 100),
                   durationMs |-> clampInt(dur, 0, 30000)]>>

\* Mutant: the duration is stored as written in the file.
ParseSeqLine_RawDuration(raw) ==
  LET line == trim(raw)
      c1 == indexOf(line, ",", 0)
      c2 == indexOf(line, ",", c1 + 1)
      idx == toInt(substring(line, 0, c1))
      power == toInt(substring(line, c1 + 1, c2))
      dur == toInt(substring(line, c2 + 1, Len(line)))
  IN IF Len(line) = 0 \/ startsWith(line, <<"#">>) THEN <<FALSE>>
     ELSE IF c1 < 0 \/ c2 < 0 THEN <<FALSE>>
     ELSE IF idx < 0 \/ idx >= SERVO_COUNT THEN <<FALSE>>
     ELSE <<TRUE, [servo |-> idx,
                   power |-> clampInt(power, -100, 100),
                   durationMs |-> dur]>>

\* One line of a sequence file: <<TRUE, step>> for a command line, <<FALSE>> for a
\* line the loop skips (empty, comment, fewer than two commas, servo out of range).
ParseSeqLine(raw) ==
  LET line == trim(raw)
      c1 == indexOf(line, ",", 0)
      c2 == indexOf(line, ",", c1 + 1)
      idx == toInt(substring(line, 0, c1))
      power == toInt(substring(line, c1 + 1, c2))
      dur == toInt(substring(line, c2 + 1, Len(line)))
  IN IF Len(line) = 0 \/ startsWith(line, <<"#">>) THEN <<FALSE>>
     ELSE IF c1 < 0 \/ c2 < 0 THEN <<FALSE>>
     ELSE IF idx < 0 \/ idx >= SERVO_COUNT THEN <<FALSE>>
     ELSE <<TRUE, [servo |-> idx,
                   power |-> clampInt(power, -100, 100),
                   durationMs |-> clampInt(dur, 0, 30000)]>>

\* Mutant: the read loop goes on when the array is full.
ReadSeqPass_NoCap(st) ==
  IF ~(Len(st.f) > 0) THEN st
  ELSE LET rd == readStringUntil(st.f, "\n")
           ln == ParseSeqLine(rd[1])
       IN [f |-> rd[2], steps |-> IF ln[1] THEN Append(st.steps, ln[2]) ELSE st.steps]

\* One pass of while (f.available() && count < MAX_SEQ_STEPS) { ... } over
\* st = [f, steps], what is left of the file and the steps stored so far; a pass
\* whose condition is false leaves st as it is.
ReadSeqPass(st) ==
  IF ~(Len(st.f) > 0 /\ Len(st.steps) < MAX_SEQ_STEPS) THEN st
  ELSE LET rd == readStringUntil(st.f, "\n")
           ln == ParseSeqLine(rd[1])
       IN [f |-> rd[2], steps |-> IF ln[1] THEN Append(st.steps, ln[2]) ELSE st.steps]

\* n passes, one after the other.
RECURSIVE ReadSeqPasses(_, _)
ReadSeqPasses(st, n) ==
  IF n = 0 THEN st
  ELSE IF n = 1 THEN ReadSeqPass(st)
  ELSE LET half == ReadSeqPasses(st, n \div 2)
       IN IF Len(half.f) = 0 THEN half ELSE ReadSeqPasses(half, n - n \div 2)

\* The steps the read loop stores, in order.  Every pass takes at least one
\* character off the file, so the loop has ended after Len(f) passes.
ReadSeqFile(f, steps) == ReadSeqPasses([f |-> f, steps |-> steps], Len(f)).steps

----------------------------------------------------------------------------
(* The sequence files in the file store.  The store is an external          *)
(* collaborator; its content is fixed here and no modelled request changes  *)
(* it.                                                                      *)

\* A request argument is <<>> when it was not given and <<v>> when it was, v its
\* value (for a number, what String::toInt() made of it).
NoArg == <<>>
hasArg(a) == a # <<>>
arg(a) == a[1]

\* makeSeqPath: trim, "noname" for an empty name, every character other than a
\* letter, a digit, '_' and '-' replaced by '_', then "seq_" + name + ".txt"
NameChars ==
  Digits \cup {"a", "b", "c", "d", "e", "f", "g", "h", "i", "j", "k", "l", "m", "n",
               "o", "p", "q", "r", "s", "t", "u", "v", "w", "x", "y", "z",
               "A", "B", "C", "D", "E", "F", "G", "H", "I", "J", "K", "L", "M", "N",
               "O", "P", "Q", "R", "S", "T", "U", "V", "W", "X", "Y", "Z", "_", "-"}

makeSeqPath(nameRaw) ==
  LET t == trim(nameRaw)
      name == IF Len(t) = 0 THEN <<"n", "o", "n", "a", "m", "e">> ELSE t
      clean == [i \in 1..Len(name) |-> IF name[i] \in NameChars THEN name[i] ELSE "_"]
  IN <<"s", "e", "q", "_">> \o clean \o <<".", "t", "x", "t">>

\* seq_a.txt:
\*   # walk / 0,50,10 / (empty) / bad line /  1,-50,0 (CR LF) / 7,10,10 / 1,5 / 0,0,10
FileA ==
  <<"#", " ", "w", "a", "l", "k", "\n", "0", ",", "5", "0", ",", "1", "0", "\n", "\n",
    "b", "a", "d", " ", "l", "i", "n", "e", "\n", " ", "1", ",", "-", "5", "0", ",", "0",
    "\r", "\n", "7", ",", "1", "0", ",", "1", "0", "\n", "1", ",", "5", "\n",
    "0", ",", "0", ",", "1", "0", "\n">>

\* seq_b.txt: 1,150,40000 (no line end)
FileB ==
  <<"1", ",", "1", "5", "0", ",", "4", "0", "0", "0", "0">>

\* seq_e.txt: # nothing / (empty) / xx / 5;1;1
FileE ==
  <<"#", " ", "n", "o", "t", "h", "i", "n", "g", "\n", "\n", "x", "x", "\n", "5", ";", "1",
    ";", "1", "\n">>

\* seq_big.txt: MAX_SEQ_STEPS + 2 command lines; line k (from 0) is "1,d,0" with
\* d the last digit of k
BigLine(k) == <<"1", ",", CHOOSE c \in Digits : DigitValue(c) = k % 10, ",", "0", "\n">>

RECURSIVE BigLines(_, _)
BigLines(lo, hi) ==
  IF lo > hi THEN <<>>
  ELSE IF lo = hi THEN BigLine(lo)
  ELSE BigLines(lo, (lo + hi) \div 2) \o BigLines((lo + hi) \div 2 + 1, hi)

FileBig == BigLines(0, MAX_SEQ_STEPS + 1)

PathA == makeSeqPath(<<"a">>)
PathB == makeSeqPath(<<"b">>)
PathE == makeSeqPath(<<"e">>)
PathBig == makeSeqPath(<<"b", "i", "g">>)

\* LittleFS.exists(path)
FileExists(path) == path \in {PathA, PathB, PathE, PathBig}

\* What the read loop of handleApiSeqRun stores for each file.
StepsA == ReadSeqFile(FileA, <<>>)
StepsB == ReadSeqFile(FileB, <<>>)
StepsE == ReadSeqFile(FileE, <<>>)
StepsBig == ReadSeqFile(FileBig, <<>>)

StoredSteps(path) ==
  CASE path = PathA -> StepsA
    [] path = PathB -> StepsB
    [] path = PathE -> StepsE
    [] path = PathBig -> StepsBig

----------------------------------------------------------------------------
(* Sequence engine.  The run state travels as one record sq = [steps,       *)
(* count, index, running, active, endTime].  seqSteps holds the slots of    *)
(* the array written so far; a slot never written reads as zeroes.          *)

SeqState ==
  [steps |-> seqSteps, count |-> seqStepCount, index |-> seqStepIndex,
   running |-> seqRunning, active |-> seqStepActive, endTime |-> seqStepEndTime]

ZeroStep == [servo |-> 0, power |-> 0, durationMs |-> 0]

\* seqSteps[i]
StepAt(steps, i) == IF i < Len(steps) THEN steps[i + 1] ELSE ZeroStep

\* Mutant: the previous run is stopped but the servos keep their power.
SeqRunReset_KeepPower(sv, sq) ==
  [sv |-> sv,
   sq |-> [sq EXCEPT !.running = FALSE, !.count = 0, !.index = 0, !.active = FALSE]]

\* handleApiSeqRun, lines 1773-1780: stop the previous run and zero the servos.
SeqRunReset(sv, sq) ==
  [sv |-> CenterLoop(sv, 0),
   sq |-> [sq EXCEPT !.running = FALSE, !.count = 0, !.index = 0, !.active = FALSE]]

\* The array after the read loop stored `steps` in its first slots.
SeqRunStore(old, steps) == steps \o SubSeq(old, Len(steps) + 1, Len(old))

\* handleApiSeqRun, lines 1836-1840: start the run.
SeqRunCommit(sq, count, now) ==
  [sq EXCEPT !.count = count, !.index = 0, !.active = FALSE,
             !.running = TRUE, !.endTime = now]

\* Mutant: a file without a command line starts a run of no steps.
handleApiSeqRun_CommitEmpty(sv, sq, nameArg, openOk, now) ==
  IF ~hasArg(nameArg) THEN [code |-> 400, sv |-> sv, sq |-> sq]
  ELSE LET path == makeSeqPath(arg(nameArg)) IN
    IF ~FileExists(path) THEN [code |-> 404, sv |-> sv, sq |-> sq]
    ELSE LET r == SeqRunReset(sv, sq) IN
      IF ~openOk THEN [code |-> 500, sv |-> r.sv, sq |-> r.sq]
      ELSE LET steps == StoredSteps(path)
               stored == [r.sq EXCEPT !.steps = SeqRunStore(@, steps)]
           IN [code |-> 200, sv |-> r.sv, sq |-> SeqRunCommit(stored, Len(steps), now)]

\* handleApiSeqRun: the reply code and the state it leaves.
handleApiSeqRun(sv, sq, nameArg, openOk, now) ==
  IF ~hasArg(nameArg) THEN [code |-> 400, sv |-> sv, sq |-> sq]
  ELSE LET path == makeSeqPath(arg(nameArg)) IN
    IF ~FileExists(path) THEN [code |-> 404, sv |-> sv, sq |-> sq]
    ELSE LET r == SeqRunReset(sv, sq) IN
      IF ~openOk THEN [code |-> 500, sv |-> r.sv, sq |-> r.sq]
      ELSE LET steps == StoredSteps(path)
               count == Len(steps)
               stored == [r.sq EXCEPT !.steps = SeqRunStore(@, steps)]
           IN IF count = 0 THEN [code |-> 400, sv |-> r.sv, sq |-> stored]
              ELSE [code |-> 200, sv |-> r.sv, sq |-> SeqRunCommit(stored, count, now)]

\* Mutant: the run ends without zeroing the servos.
SeqFinish_KeepPower(sv, sq) ==
  [sv |-> sv, sq |-> [sq EXCEPT !.running = FALSE], event |-> "finish"]

\* processSequenceScheduler, lines 1859-1867: the run is over.
SeqFinish(sv, sq) ==
  [sv |-> CenterLoop(sv, 0), sq |-> [sq EXCEPT !.running = FALSE], event |-> "finish"]

\* Mutant: the step after the one at seqStepIndex is applied.
SeqDispatch_NextSlot(sv, sq, now) ==
  LET st == StepAt(sq.steps, sq.index + 1)
  IN [sv |-> setServoPower(sv, st.servo, st.power),
      sq |-> [sq EXCEPT !.index = @ + 1,
                        !.active = st.durationMs > 0,
                        !.endTime = IF st.durationMs > 0
                                      THEN AddMillis(now, st.durationMs) ELSE now],
      event |-> "dispatch"]

\* Mutant: a step for a detached servo is passed over.
SeqDispatch_SkipDetached(sv, sq, now) ==
  LET st == StepAt(sq.steps, sq.index)
  IN [sv |-> IF sv.attached[st.servo] THEN setServoPower(sv, st.servo, st.power) ELSE sv,
      sq |-> [sq EXCEPT !.index = @ + 1,
                        !.active = st.durationMs > 0,
                        !.endTime = IF st.durationMs > 0
                                      THEN AddMillis(now, st.durationMs) ELSE now],
      event |-> "dispatch"]

\* Mutant: the step is applied but seqStepIndex stays where it was.
SeqDispatch_Repeat(sv, sq, now) ==
  LET st == StepAt(sq.steps, sq.index)
  IN [sv |-> setServoPower(sv, st.servo, st.power),
      sq |-> [sq EXCEPT !.active = st.durationMs > 0,
                        !.endTime = IF st.durationMs > 0
                                      THEN AddMillis(now, st.durationMs) ELSE now],
      event |-> "dispatch"]

\* processSequenceScheduler, lines 1869-1888: start the next step.
SeqDispatch(sv, sq, now) ==
  LET st == StepAt(sq.steps, sq.index)
  IN [sv |-> setServoPower(sv, st.servo, st.power),
      sq |-> [sq EXCEPT !.index = @ + 1,
                        !.active = st.durationMs > 0,
                        !.endTime = IF st.durationMs > 0
                                      THEN AddMillis(now, st.durationMs) ELSE now],
      event |-> "dispatch"]

\* Mutant: when a step's time is over its servo is put back to power 0.
SeqWait_RevertsPower(sv, sq, now) ==
  IF TimeReached(now, sq.endTime)
    THEN [sv |-> setServoPower(sv, StepAt(sq.steps, sq.index - 1).servo, 0),
          sq |-> [sq EXCEPT !.active = FALSE], event |-> "expire"]
    ELSE [sv |-> sv, sq |-> sq, event |-> "wait"]

\* Mutant: the pass that finds the step's time passed starts the next step.
SeqWait_ThenDispatch(sv, sq, now) ==
  IF TimeReached(now, sq.endTime)
    THEN IF sq.index >= sq.count
           THEN SeqFinish(sv, [sq EXCEPT !.active = FALSE])
           ELSE SeqDispatch(sv, [sq EXCEPT !.active = FALSE], now)
    ELSE [sv |-> sv, sq |-> sq, event |-> "wait"]

\* Mutant: the run is dropped when a step's time has passed.
SeqWait_EndsRun(sv, sq, now) ==
  IF TimeReached(now, sq.endTime)
    THEN [sv |-> sv, sq |-> [sq EXCEPT !.active = FALSE, !.running = FALSE],
          event |-> "expire"]
    ELSE [sv |-> sv, sq |-> sq, event |-> "wait"]

\* processSequenceScheduler, lines 1891-1894: has the running step's time passed?
SeqWait(sv, sq, now) ==
  IF TimeReached(now, sq.endTime)
    THEN [sv |-> sv, sq |-> [sq EXCEPT !.active = FALSE], event |-> "expire"]
    ELSE [sv |-> sv, sq |-> sq, event |-> "wait"]

\* Mutant: after a step of no duration the pass goes straight on to the next
\* step, or to the end of the run.
processSequenceScheduler_Chain(sv, sq, now) ==
  IF ~sq.running THEN [sv |-> sv, sq |-> sq, event |-> "idle"]
  ELSE IF ~sq.active
    THEN IF sq.index >= sq.count THEN SeqFinish(sv, sq)
         ELSE LET r == SeqDispatch(sv, sq, now)
              IN IF r.sq.active THEN r
                 ELSE IF r.sq.index >= r.sq.count THEN SeqFinish(r.sv, r.sq)
                 ELSE SeqDispatch(r.sv, r.sq, now)
    ELSE SeqWait(sv, sq, now)

processSequenceScheduler(sv, sq, now) ==
  IF ~sq.running THEN [sv |-> sv, sq |-> sq, event |-> "idle"]
  ELSE IF ~sq.active
    THEN IF sq.index >= sq.count THEN SeqFinish(sv, sq) ELSE SeqDispatch(sv, sq, now)
    ELSE SeqWait(sv, sq, now)

----------------------------------------------------------------------------
(* Request handlers, as functions of the state: the reply code and the      *)
(* state the handler leaves.                                                *)

\* isValidGpio((uint8_t)gpio)
isValidGpio(gpio) == (gpio % 256) \in GPIO_OPTIONS

handleApiMove(sv, servoArg, dirArg, stepArg, powerStep, pulseMs, now) ==
  IF ~hasArg(servoArg) \/ ~hasArg(dirArg) THEN [code |-> 400, sv |-> sv]
  ELSE LET index == arg(servoArg)
           dir == arg(dirArg)
           stepP == clampInt(IF hasArg(stepArg) THEN arg(stepArg) ELSE powerStep, 1, 100)
       IN IF index < 0 \/ index >= SERVO_COUNT THEN [code |-> 400, sv |-> sv]
          ELSE IF dir = 0 THEN [code |-> 400, sv |-> sv]
          ELSE LET newPower ==
                     clampInt(sv.power[index] + (IF dir > 0 THEN stepP ELSE -stepP),
                              -100, 100)
                   dur == clampInt(pulseMs, 10, 5000)
               IN [code |-> 200,
                   sv |-> scheduleServoStop(setServoPower(sv, index, newPower),
                                            index, dur, now)]

\* Mutant: the position is not tracked when the duration hit a limit.
moveServoByAngle_ClampUntracked(sv, deg, fullTurnMs, index, angleDeg, power, now) ==
  IF index >= SERVO_COUNT THEN [sv |-> sv, deg |-> deg]
  ELSE IF angleDeg = 0 THEN [sv |-> sv, deg |-> deg]
  ELSE LET absPower == clampInt(IF abs(power) = 0 THEN 50 ELSE abs(power), 1, 100)
           cmdPower == IF angleDeg > 0 THEN absPower ELSE -absPower
           dur == computeDurationForAngle(fullTurnMs, index, angleDeg, absPower)
       IN [sv |-> scheduleServoStop(setServoPower(sv, index, cmdPower), index, dur, now),
           deg |-> IF dur > 10 /\ dur < 30000
                     THEN [deg EXCEPT ![index] = @ + angleDeg] ELSE deg]

moveServoByAngle(sv, deg, fullTurnMs, index, angleDeg, power, now) ==
  IF index >= SERVO_COUNT THEN [sv |-> sv, deg |-> deg]
  ELSE IF angleDeg = 0 THEN [sv |-> sv, deg |-> deg]
  ELSE LET absPower == clampInt(IF abs(power) = 0 THEN 50 ELSE abs(power), 1, 100)
           cmdPower == IF angleDeg > 0 THEN absPower ELSE -absPower
           dur == computeDurationForAngle(fullTurnMs, index, angleDeg, absPower)
       IN [sv |-> scheduleServoStop(setServoPower(sv, index, cmdPower), index, dur, now),
           deg |-> [deg EXCEPT ![index] = @ + angleDeg]]

handleApiMoveAngle(sv, deg, fullTurnMs, servoArg, angleArg, powerArg, now) ==
  IF ~hasArg(servoArg) \/ ~hasArg(angleArg) THEN [code |-> 400, sv |-> sv, deg |-> deg]
  ELSE LET index == arg(servoArg)
           power == IF hasArg(powerArg) THEN arg(powerArg) ELSE 50
       IN IF index < 0 \/ index >= SERVO_COUNT
            THEN [code |-> 400, sv |-> sv, deg |-> deg]
            ELSE LET m == moveServoByAngle(sv, deg, fullTurnMs, index, arg(angleArg),
                                           power, now)
                 IN [code |-> 200, sv |-> m.sv, deg |-> m.deg]

handleApiCenterOne(sv, servoArg) ==
  IF ~hasArg(servoArg) THEN [code |-> 400, sv |-> sv]
  ELSE IF arg(servoArg) < 0 \/ arg(servoArg) >= SERVO_COUNT THEN [code |-> 400, sv |-> sv]
  ELSE [code |-> 200, sv |-> setServoPower(sv, arg(servoArg), 0)]

\* Mutant: center_all stops the servos as stop_all does.
handleApiCenterAll_Detach(sv) == [code |-> 200, sv |-> StopLoop(sv, 0)]

handleApiCenterAll(sv) == [code |-> 200, sv |-> CenterLoop(sv, 0)]

handleApiStopOne(sv, servoArg) ==
  IF ~hasArg(servoArg) THEN [code |-> 400, sv |-> sv]
  ELSE IF arg(servoArg) < 0 \/ arg(servoArg) >= SERVO_COUNT THEN [code |-> 400, sv |-> sv]
  ELSE [code |-> 200, sv |-> stopServo(sv, arg(servoArg))]

handleApiStopAll(sv) == [code |-> 200, sv |-> StopLoop(sv, 0)]

handleApiSetPin(sv, pins, servoArg, gpioArg) ==
  IF ~hasArg(servoArg) \/ ~hasArg(gpioArg) THEN [code |-> 400, sv |-> sv, pins |-> pins]
  ELSE LET index == arg(servoArg)
           gpio == arg(gpioArg)
       IN IF index < 0 \/ index >= SERVO_COUNT
            THEN [code |-> 400, sv |-> sv, pins |-> pins]
          ELSE IF ~isValidGpio(gpio) THEN [code |-> 400, sv |-> sv, pins |-> pins]
          ELSE [code |-> 200, sv |-> stopServo(sv, index),
                pins |-> [pins EXCEPT ![index] = gpio % 256]]

handleApiSaveConfig(sv, powerStep, pulseMs, stepArg, pulseArg) ==
  [code |-> 200,
   powerStep |-> IF hasArg(stepArg) THEN clampInt(arg(stepArg), 1, 100) ELSE powerStep,
   pulseMs |-> IF hasArg(pulseArg) THEN clampInt(arg(pulseArg), 10, 5000) ELSE pulseMs,
   sv |-> StopLoop(sv, 0)]

\* Mutant: the time is stored as given.
handleApiCalibSetFullTurn_NoClamp(fullTurnMs, servoArg, msArg) ==
  IF ~hasArg(servoArg) \/ ~hasArg(msArg) THEN [code |-> 400, ft |-> fullTurnMs]
  ELSE IF arg(servoArg) < 0 \/ arg(servoArg) >= SERVO_COUNT
    THEN [code |-> 400, ft |-> fullTurnMs]
  ELSE [code |-> 200, ft |-> [fullTurnMs EXCEPT ![arg(servoArg)] = arg(msArg)]]

handleApiCalibSetFullTurn(fullTurnMs, servoArg, msArg) ==
  IF ~hasArg(servoArg) \/ ~hasArg(msArg) THEN [code |-> 400, ft |-> fullTurnMs]
  ELSE IF arg(servoArg) < 0 \/ arg(servoArg) >= SERVO_COUNT
    THEN [code |-> 400, ft |-> fullTurnMs]
  ELSE [code |-> 200,
        ft |-> [fullTurnMs EXCEPT ![arg(servoArg)] = clampInt(arg(msArg), 100, 60000)]]

\* Mutant: the centre is stored but the position is not reset.
handleApiCalibCenterHere_KeepPosition(deg, center, servoArg) ==
  IF ~hasArg(servoArg) THEN [code |-> 400, deg |-> deg, center |-> center]
  ELSE IF arg(servoArg) < 0 \/ arg(servoArg) >= SERVO_COUNT
    THEN [code |-> 400, deg |-> deg, center |-> center]
  ELSE [code |-> 200, center |-> [center EXCEPT ![arg(servoArg)] = deg[arg(servoArg)]],
        deg |-> deg]

handleApiCalibCenterHere(deg, center, servoArg) ==
  IF ~hasArg(servoArg) THEN [code |-> 400, deg |-> deg, center |-> center]
  ELSE IF arg(servoArg) < 0 \/ arg(servoArg) >= SERVO_COUNT
    THEN [code |-> 400, deg |-> deg, center |-> center]
  ELSE [code |-> 200, center |-> [center EXCEPT ![arg(servoArg)] = deg[arg(servoArg)]],
        deg |-> [deg EXCEPT ![arg(servoArg)] = 0]]

\* Mutant: the sequence engine runs before the pulse scheduler.
loopSchedulers_SequenceFirst(sv, sq, now) ==
  LET r == processSequenceScheduler(sv, sq, now)
  IN [sv |-> processServoPulseScheduler(r.sv, now), sq |-> r.sq, event |-> r.event]

\* loop(): the pulse scheduler, then the sequence engine
loopSchedulers(sv, sq, now) ==
  processSequenceScheduler(processServoPulseScheduler(sv, now), sq, now)

----------------------------------------------------------------------------
(* The state machine *)

\* setup(): loadOrInitConfig() without a config.txt, then setupServos(); the
\* scheduler's globals are zero-initialised.
Init ==
  /\ currentPower = [i \in Servos |-> 0]
  /\ servoAttached = [i \in Servos |-> FALSE]
  /\ servoPulseActive = [i \in Servos |-> FALSE]
  /\ servoPulseEndTime = [i \in Servos |-> 0]
  /\ SERVO_PINS = DefaultPins
  /\ servoFullTurnMs = [i \in Servos |-> 1000]
  /\ servoCurrentDeg = [i \in Servos |-> 0]
  /\ servoCenterDeg = [i \in Servos |-> 0]
  /\ defaultPowerStep = 10
  /\ pulseDurationMs = 50
  /\ seqSteps = <<>>
  /\ seqStepCount = 0
  /\ seqStepIndex = 0
  /\ seqRunning = FALSE
  /\ seqStepActive = FALSE
  /\ seqStepEndTime = 0
  /\ millis = -WrapLead
  /\ last = [op |-> "setup", code |-> 0, args |-> <<>>, pre |-> <<>>]
  /\ reqCount = 0

SetServo(sv) ==
  /\ currentPower' = sv.power
  /\ servoAttached' = sv.attached
  /\ servoPulseActive' = sv.pulseActive
  /\ servoPulseEndTime' = sv.pulseEnd

SetSeq(sq) ==
  /\ seqSteps' = sq.steps
  /\ seqStepCount' = sq.count
  /\ seqStepIndex' = sq.index
  /\ seqRunning' = sq.running
  /\ seqStepActive' = sq.active
  /\ seqStepEndTime' = sq.endTime

\* The program state, as last.pre keeps it: the state the operation started from.
Snapshot ==
  [sv |-> ServoState, sq |-> SeqState, pins |-> SERVO_PINS,
   ft |-> servoFullTurnMs, deg |-> servoCurrentDeg, center |-> servoCenterDeg,
   powerStep |-> defaultPowerStep, pulseMs |-> pulseDurationMs]

\* server.handleClient() serving one request
Served(op, code, args) ==
  /\ last' = [op |-> op, code |-> code, args |-> args, pre |-> Snapshot]
  /\ reqCount' = reqCount + 1

ApiMove(servoArg, dirArg, stepArg) ==
  /\ reqCount < MaxRequests
  /\ LET r == handleApiMove(ServoState, servoArg, dirArg, stepArg,
                            defaultPowerStep, pulseDurationMs, millis)
     IN SetServo(r.sv) /\ Served("move", r.code, <<servoArg, dirArg, stepArg>>)
  /\ UNCHANGED <<calibVars, configVars, seqVars, millis>>

ApiMoveAngle(servoArg, angleArg, powerArg) ==
  /\ reqCount < MaxRequests
  /\ LET r == handleApiMoveAngle(ServoState, servoCurrentDeg, servoFullTurnMs,
                                 servoArg, angleArg, powerArg, millis)
     IN /\ SetServo(r.sv)
        /\ servoCurrentDeg' = r.deg
        /\ Served("move_angle", r.code, <<servoArg, angleArg, powerArg>>)
  /\ UNCHANGED <<servoFullTurnMs, servoCenterDeg, configVars, seqVars, millis>>

ApiCenterOne(servoArg) ==
  /\ reqCount < MaxRequests
  /\ LET r == handleApiCenterOne(ServoState, servoArg)
     IN SetServo(r.sv) /\ Served("center_one", r.code, <<servoArg>>)
  /\ UNCHANGED <<calibVars, configVars, seqVars, millis>>

ApiCenterAll ==
  /\ reqCount < MaxRequests
  /\ LET r == handleApiCenterAll(ServoState)
     IN SetServo(r.sv) /\ Served("center_all", r.code, <<>>)
  /\ UNCHANGED <<calibVars, configVars, seqVars, millis>>

ApiStopOne(servoArg) ==
  /\ reqCount < MaxRequests
  /\ LET r == handleApiStopOne(ServoState, servoArg)
     IN SetServo(r.sv) /\ Served("stop_one", r.code, <<servoArg>>)
  /\ UNCHANGED <<calibVars, configVars, seqVars, millis>>

ApiStopAll ==
  /\ reqCount < MaxRequests
  /\ LET r == handleApiStopAll(ServoState)
     IN SetServo(r.sv) /\ Served("stop_all", r.code, <<>>)
  /\ UNCHANGED <<calibVars, configVars, seqVars, millis>>

ApiSetPin(servoArg, gpioArg) ==
  /\ reqCount < MaxRequests
  /\ LET r == handleApiSetPin(ServoState, SERVO_PINS, servoArg, gpioArg)
     IN /\ SetServo(r.sv)
        /\ SERVO_PINS' = r.pins
        /\ Served("set_pin", r.code, <<servoArg, gpioArg>>)
  /\ UNCHANGED <<calibVars, defaultPowerStep, pulseDurationMs, seqVars, millis>>

ApiSaveConfig(stepArg, pulseArg) ==
  /\ reqCount < MaxRequests
  /\ LET r == handleApiSaveConfig(ServoState, defaultPowerStep, pulseDurationMs,
                                  stepArg, pulseArg)
     IN /\ SetServo(r.sv)
        /\ defaultPowerStep' = r.powerStep
        /\ pulseDurationMs' = r.pulseMs
        /\ Served("save_config", r.code, <<stepArg, pulseArg>>)
  /\ UNCHANGED <<calibVars, SERVO_PINS, seqVars, millis>>

ApiCalibSetFullTurn(servoArg, msArg) ==
  /\ reqCount < MaxRequests
  /\ LET r == handleApiCalibSetFullTurn(servoFullTurnMs, servoArg, msArg)
     IN /\ servoFullTurnMs' = r.ft
        /\ Served("calib_set_fullturn", r.code, <<servoArg, msArg>>)
  /\ UNCHANGED <<servoVars, servoCurrentDeg, servoCenterDeg, configVars, seqVars, millis>>

ApiCalibCenterHere(servoArg) ==
  /\ reqCount < MaxRequests
  /\ LET r == handleApiCalibCenterHere(servoCurrentDeg, servoCenterDeg, servoArg)
     IN /\ servoCurrentDeg' = r.deg
        /\ servoCenterDeg' = r.center
        /\ Served("calib_center_here", r.code, <<servoArg>>)
  /\ UNCHANGED <<servoVars, servoFullTurnMs, configVars, seqVars, millis>>

\* openOk: whether LittleFS.open() of the existing file succeeds
ApiSeqRun(nameArg, openOk) ==
  /\ reqCount < MaxRequests
  /\ LET r == handleApiSeqRun(ServoState, SeqState, nameArg, openOk, millis)
     IN SetServo(r.sv) /\ SetSeq(r.sq) /\ Served("seq_run", r.code, <<nameArg, openOk>>)
  /\ UNCHANGED <<calibVars, configVars, millis>>

\* One pass of loop() that serves no request: both schedulers, at the current time.
\* last records which pulses reverted and what the sequence engine did.
Loop ==
  /\ LET r == loopSchedulers(ServoState, SeqState, millis)
     IN /\ SetServo(r.sv)
        /\ SetSeq(r.sq)
        /\ last' = [op |-> "loop", code |-> 0, args |-> <<>>, pre |-> Snapshot,
                    fired |-> {i \in Servos : servoPulseActive[i]
                                 /\ TimeReached(millis, servoPulseEndTime[i])},
                    event |-> r.event]
  /\ UNCHANGED <<calibVars, configVars, millis, reqCount>>

\* d milliseconds pass
Advance(d) ==
  /\ (millis + WrapLead) + d <= MaxElapsed
  /\ millis' = AddMillis(millis, d)
  /\ last' = [op |-> "advance", code |-> 0, args |-> <<d>>, pre |-> Snapshot]
  /\ UNCHANGED <<servoVars, calibVars, configVars, seqVars, reqCount>>

----------------------------------------------------------------------------
(* Inputs *)

ClockSteps == {10}
ServoIn == {<<0>>, <<1>>}

MoveIn ==
  (ServoIn \X {<<1>>, <<-1>>} \X {NoArg, <<250>>})
    \cup {<< <<6>>, <<1>>, NoArg >>, << <<0>>, <<0>>, NoArg >>, << NoArg, <<1>>, NoArg >>}

MoveAngleIn ==
  (ServoIn \X {<< <<3>>, <<100>> >>, << <<-90>>, NoArg >>, << <<0>>, <<100>> >>})
    \cup {<< <<6>>, << <<3>>, NoArg >> >>, << <<0>>, << NoArg, NoArg >> >>}

IndexIn == ServoIn \cup {<<6>>, <<-1>>, NoArg}

SetPinIn ==
  {<< <<0>>, <<4>> >>, << <<1>>, <<269>> >>, << <<0>>, <<3>> >>, << <<7>>, <<4>> >>,
   << <<1>>, NoArg >>}

SaveConfigIn == {<< NoArg, NoArg >>, << <<250>>, <<5>> >>}

FullTurnIn ==
  {<< <<0>>, <<50>> >>, << <<1>>, <<1200>> >>, << <<6>>, <<1000>> >>, << <<0>>, NoArg >>}

\* name = a, b, e (files that exist), z and the empty name (no such file), no
\* name at all, and a whose open() fails
SeqRunIn ==
  {<< << <<"a">> >>, TRUE >>, << << <<"b">> >>, TRUE >>, << << <<"e">> >>, TRUE >>,
   << << <<"a">> >>, FALSE >>, << << <<"z">> >>, TRUE >>, << << <<>> >>, TRUE >>,
   << NoArg, TRUE >>}

Next ==
  \/ \E a \in MoveIn : ApiMove(a[1], a[2], a[3])
  \/ \E a \in MoveAngleIn : ApiMoveAngle(a[1], a[2][1], a[2][2])
  \/ \E a \in IndexIn : ApiCenterOne(a)
  \/ ApiCenterAll
  \/ \E a \in IndexIn : ApiStopOne(a)
  \/ ApiStopAll
  \/ \E a \in SetPinIn : ApiSetPin(a[1], a[2])
  \/ \E a \in SaveConfigIn : ApiSaveConfig(a[1], a[2])
  \/ \E a \in FullTurnIn : ApiCalibSetFullTurn(a[1], a[2])
  \/ \E a \in IndexIn : ApiCalibCenterHere(a)
  \/ \E a \in SeqRunIn : ApiSeqRun(a[1], a[2])
  \/ Loop
  \/ \E d \in ClockSteps : Advance(d)

Spec == Init /\ [][Next]_vars

----------------------------------------------------------------------------
(* The functions of section 6 called directly, for the claims that are      *)
(* about a function's contract for every argument and every prior state.    *)

CallSetServoPower(index, power) ==
  /\ reqCount < MaxRequests
  /\ SetServo(setServoPower(ServoState, index, power))
  /\ Served("setServoPower", 0, <<index, power>>)
  /\ UNCHANGED <<calibVars, configVars, seqVars, millis>>

CallStopServo(index) ==
  /\ reqCount < MaxRequests
  /\ SetServo(stopServo(ServoState, index))
  /\ Served("stopServo", 0, <<index>>)
  /\ UNCHANGED <<calibVars, configVars, seqVars, millis>>

CallScheduleServoStop(index, durationMs) ==
  /\ reqCount < MaxRequests
  /\ SetServo(scheduleServoStop(ServoState, index, durationMs, millis))
  /\ Served("scheduleServoStop", 0, <<index, durationMs>>)
  /\ UNCHANGED <<calibVars, configVars, seqVars, millis>>

CallMoveServoByAngle(index, angleDeg, power) ==
  /\ reqCount < MaxRequests
  /\ LET r == moveServoByAngle(ServoState, servoCurrentDeg, servoFullTurnMs,
                               index, angleDeg, power, millis)
     IN SetServo(r.sv) /\ servoCurrentDeg' = r.deg
  /\ Served("moveServoByAngle", 0, <<index, angleDeg, power>>)
  /\ UNCHANGED <<servoFullTurnMs, servoCenterDeg, configVars, seqVars, millis>>

FnIndexIn == {0, 1, 6}
FnPowerIn == {-250, -100, -7, 0, 100, 101}
FnDurationIn == {-5, 0, 10, 40000}
FnAngleIn == {<<3, 100>>, <<-90, 0>>, <<0, 100>>, <<2, -300>>}

NextFn ==
  \/ \E i \in FnIndexIn, p \in FnPowerIn : CallSetServoPower(i, p)
  \/ \E i \in FnIndexIn : CallStopServo(i)
  \/ \E i \in FnIndexIn, d \in FnDurationIn : CallScheduleServoStop(i, d)
  \/ \E i \in FnIndexIn, a \in FnAngleIn : CallMoveServoByAngle(i, a[1], a[2])
  \/ Loop
  \/ \E d \in ClockSteps : Advance(d)

SpecFn == Init /\ [][NextFn]_vars

(* The pulse functions on a millisecond clock: ticks fall just before, on   *)
(* and after a pulse's end time.  Servo 0 is driven, stopped and pulsed,    *)
(* servo 1 only pulsed.                                                     *)
TimingClockSteps == {1, 9}
TimingServoIn == {0, 1}
TimingDrivenIn == {0}
TimingPowerIn == {60}
TimingDurationIn == {1, 10}
TimingAngleIn == {<<3, 100>>}

NextTiming ==
  \/ \E i \in TimingDrivenIn, p \in TimingPowerIn : CallSetServoPower(i, p)
  \/ \E i \in TimingDrivenIn : CallStopServo(i)
  \/ \E i \in TimingServoIn, d \in TimingDurationIn : CallScheduleServoStop(i, d)
  \/ \E i \in TimingDrivenIn, a \in TimingAngleIn : CallMoveServoByAngle(i, a[1], a[2])
  \/ Loop
  \/ \E d \in TimingClockSteps : Advance(d)

SpecTiming == Init /\ [][NextTiming]_vars

(* Sequence requests alone, the over-long file seq_big.txt among them.      *)
CapSeqRunIn == {<< << <<"b", "i", "g">> >>, TRUE >>, << << <<"a">> >>, TRUE >>}

NextCap ==
  \/ \E a \in CapSeqRunIn : ApiSeqRun(a[1], a[2])
  \/ ApiStopAll
  \/ Loop
  \/ \E d \in ClockSteps : Advance(d)

SpecCap == Init /\ [][NextCap]_vars

(* moveServoByAngle over calibrations, angles and powers.  A calibration    *)
(* other than the default comes from config.txt or calib_set_fullturn, both *)
(* of which keep it in 100..60000.                                          *)
AngleFullTurnIn == {1000, 60000}
AngleDegIn == {-81, 0, 3, 81, 180}
AnglePowerIn == {-3, 0, 100, 300}
AngleServoIn == {0}

InitAngle ==
  /\ currentPower = [i \in Servos |-> 0]
  /\ servoAttached = [i \in Servos |-> FALSE]
  /\ servoPulseActive = [i \in Servos |-> FALSE]
  /\ servoPulseEndTime = [i \in Servos |-> 0]
  /\ SERVO_PINS = DefaultPins
  /\ servoFullTurnMs \in {[i \in Servos |-> ft] : ft \in AngleFullTurnIn}
  /\ servoCurrentDeg = [i \in Servos |-> 0]
  /\ servoCenterDeg = [i \in Servos |-> 0]
  /\ defaultPowerStep = 10
  /\ pulseDurationMs = 50
  /\ seqSteps = <<>>
  /\ seqStepCount = 0
  /\ seqStepIndex = 0
  /\ seqRunning = FALSE
  /\ seqStepActive = FALSE
  /\ seqStepEndTime = 0
  /\ millis = -WrapLead
  /\ last = [op |-> "setup", code |-> 0, args |-> <<>>, pre |-> <<>>]
  /\ reqCount = 0

NextAngle ==
  \/ \E i \in AngleServoIn, a \in AngleDegIn, p \in AnglePowerIn :
       CallMoveServoByAngle(i, a, p)
  \/ Loop
  \/ \E d \in ClockSteps : Advance(d)

SpecAngle == InitAngle /\ [][NextAngle]_vars

(* A pulse and a sequence on a millisecond clock that passes the point      *)
(* where millis() wraps to zero.                                            *)
WrapSeqRunIn == {<< << <<"a">> >>, TRUE >>}
WrapServoIn == {1}

NextWrap ==
  \/ \E a \in WrapSeqRunIn : ApiSeqRun(a[1], a[2])
  \/ \E i \in WrapServoIn, d \in TimingDurationIn : CallScheduleServoStop(i, d)
  \/ Loop
  \/ \E d \in TimingClockSteps : Advance(d)

SpecWrap == Init /\ [][NextWrap]_vars

(* One sequence request after another, with loop() called for ever and the  *)
(* clock running on: loop() is the body of the Arduino main loop, and       *)
(* millis() counts on its own.  A pass of loop() takes far less than a      *)
(* millisecond, so the clock moves on only between passes that have nothing *)
(* left to do at the current time.                                          *)
LiveSeqRunIn == {<< << <<"a">> >>, TRUE >>, << << <<"e">> >>, TRUE >>}

\* millis() counts every millisecond
LiveClockSteps == {1}

\* A pass of loop() at the current time would change neither a servo nor the
\* sequence engine.
LoopSettled ==
  LET r == loopSchedulers(ServoState, SeqState, millis)
  IN r.sv = ServoState /\ r.sq = SeqState

AdvanceSettled(d) == LoopSettled /\ Advance(d)

NextLive ==
  \/ \E a \in LiveSeqRunIn : ApiSeqRun(a[1], a[2])
  \/ Loop
  \/ \E d \in LiveClockSteps : AdvanceSettled(d)

SpecLive ==
  /\ Init /\ [][NextLive]_vars
  /\ WF_vars(Loop)
  /\ WF_vars(\E d \in LiveClockSteps : AdvanceSettled(d))

(* The calibration requests, starting from a config.txt that holds a line   *)
(* FT<i>=ms for every servo.                                                *)

\* loadOrInitConfig, lines 845-855: the value of an FT line
ConfigFullTurn(ms) == clampInt(ms, 100, 60000)

CalibConfigIn == {-5, 0, 1200, 70000}
CalibMoveAngleIn == {<< <<0>>, << <<3>>, <<100>> >> >>, << <<0>>, << <<-90>>, NoArg >> >>}

InitCalib ==
  /\ currentPower = [i \in Servos |-> 0]
  /\ servoAttached = [i \in Servos |-> FALSE]
  /\ servoPulseActive = [i \in Servos |-> FALSE]
  /\ servoPulseEndTime = [i \in Servos |-> 0]
  /\ SERVO_PINS = DefaultPins
  /\ servoFullTurnMs \in {[i \in Servos |-> ConfigFullTurn(ms)] : ms \in CalibConfigIn}
  /\ servoCurrentDeg = [i \in Servos |-> 0]
  /\ servoCenterDeg = [i \in Servos |-> 0]
  /\ defaultPowerStep = 10
  /\ pulseDurationMs = 50
  /\ seqSteps = <<>>
  /\ seqStepCount = 0
  /\ seqStepIndex = 0
  /\ seqRunning = FALSE
  /\ seqStepActive = FALSE
  /\ seqStepEndTime = 0
  /\ millis = -WrapLead
  /\ last = [op |-> "setup", code |-> 0, args |-> <<>>, pre |-> <<>>]
  /\ reqCount = 0

NextCalib ==
  \/ \E a \in FullTurnIn : ApiCalibSetFullTurn(a[1], a[2])
  \/ \E a \in CalibMoveAngleIn : ApiMoveAngle(a[1], a[2][1], a[2][2])
  \/ \E a \in ServoIn : ApiCalibCenterHere(a)
  \/ Loop
  \/ \E d \in ClockSteps : Advance(d)

SpecCalib == InitCalib /\ [][NextCalib]_vars

(* powerToPulse on its own: last.code is the pulse width it returns.        *)
CallPowerToPulse(power) ==
  /\ reqCount < MaxRequests
  /\ Served("powerToPulse", powerToPulse(power), <<power>>)
  /\ UNCHANGED <<servoVars, calibVars, configVars, seqVars, millis>>

PulsePowerIn == (-130..130) \cup {-100000, -32768, 32767, 100000}

NextPulse == \E p \in PulsePowerIn : CallPowerToPulse(p)

SpecPulse == Init /\ [][NextPulse]_vars

(* The lines of a sequence file one at a time, next to whole files: the     *)
(* line "idx,power,dur" is written out in decimal and parsed as the read    *)
(* loop parses it.  last.code is 1 for a line that is stored, 0 for one     *)
(* that is skipped, and last.step is the step stored.                       *)
RECURSIVE NatChars(_)
NatChars(n) ==
  IF n < 10 THEN <<CHOOSE c \in Digits : DigitValue(c) = n>>
  ELSE NatChars(n \div 10) \o <<CHOOSE c \in Digits : DigitValue(c) = n % 10>>

IntChars(n) == IF n < 0 THEN <<"-">> \o NatChars(-n) ELSE NatChars(n)

SeqLineText(idx, power, dur) ==
  IntChars(idx) \o <<",">> \o IntChars(power) \o <<",", " ">> \o IntChars(dur) \o <<"\r">>

CallParseSeqLine(idx, power, dur) ==
  /\ reqCount < MaxRequests
  /\ LET r == ParseSeqLine(SeqLineText(idx, power, dur))
     IN last' = [op |-> "ParseSeqLine", code |-> IF r[1] THEN 1 ELSE 0,
                 args |-> <<idx, power, dur>>, pre |-> Snapshot,
                 step |-> IF r[1] THEN r[2] ELSE ZeroStep]
  /\ reqCount' = reqCount + 1
  /\ UNCHANGED <<servoVars, calibVars, configVars, seqVars, millis>>

LineIndexIn == {-1, 0, 5, 6, 256}
LinePowerIn == {-32868, -101, -7, 100, 150}
LineDurationIn == {-5, 0, 30000, 30001, 70000}
LineSeqRunIn == {<< << <<"a">> >>, TRUE >>, << << <<"b">> >>, TRUE >>}

NextLine ==
  \/ \E i \in LineIndexIn, p \in LinePowerIn, d \in LineDurationIn :
       CallParseSeqLine(i, p, d)
  \/ \E a \in LineSeqRunIn : ApiSeqRun(a[1], a[2])
  \/ Loop
  \/ \E d \in ClockSteps : Advance(d)

SpecLine == Init /\ [][NextLine]_vars

(* A sequence with stop requests coming in while it runs, loop() called for *)
(* ever and the clock running on as in SpecLive.                            *)
StopSeqRunIn == {<< << <<"a">> >>, TRUE >>}
StopIndexIn == {<<1>>}

NextStop ==
  \/ \E a \in StopSeqRunIn : ApiSeqRun(a[1], a[2])
  \/ ApiStopAll
  \/ \E a \in StopIndexIn : ApiStopOne(a)
  \/ Loop
  \/ \E d \in LiveClockSteps : AdvanceSettled(d)

SpecStop ==
  /\ Init /\ [][NextStop]_vars
  /\ WF_vars(Loop)
  /\ WF_vars(\E d \in LiveClockSteps : AdvanceSettled(d))

----------------------------------------------------------------------------
(* Claims *)

\* What the claims mean by clamp(p, -100, 100).
ClampedPower(p) == IF p < -100 THEN -100 ELSE IF p > 100 THEN 100 ELSE p

\* C1: in every reachable state a servo that is not attached has power 0.
C1_DetachedImpliesStopped ==
  \A i \in Servos : ~servoAttached[i] => currentPower[i] = 0

\* C1 witness: a servo that was running is detached by a pin reassignment.
C1_Witness ==
  /\ last.op = "set_pin" /\ last.code = 200
  /\ \E i \in Servos :
       /\ last.pre.sv.attached[i] /\ last.pre.sv.power[i] # 0
       /\ ~servoAttached[i]

\* C2: after setServoPower(i, p) on a valid index the stored power is
\* clamp(p, -100, 100) and the servo is attached, whatever the state before.
C2_SetPowerClampsAndAttaches ==
  (last.op = "setServoPower" /\ last.args[1] < SERVO_COUNT) =>
    /\ currentPower[last.args[1]] = ClampedPower(last.args[2])
    /\ servoAttached[last.args[1]]

\* C2 witness: an out-of-range power written to a servo that was detached.
C2_Witness ==
  /\ last.op = "setServoPower" /\ last.args[1] < SERVO_COUNT
  /\ last.args[2] > 100
  /\ ~last.pre.sv.attached[last.args[1]]
  /\ currentPower[last.args[1]] = 100

\* C3: after an accepted stop of servo i the servo is detached, its power is 0
\* and its pulse schedule is inactive, whatever the state before.
C3_StopPostcondition ==
  (last.op = "stop_one" /\ last.code = 200) =>
    LET i == arg(last.args[1])
    IN ~servoAttached[i] /\ currentPower[i] = 0 /\ ~servoPulseActive[i]

\* C3 witness: the stopped servo was attached, running and had a pulse armed.
C3_Witness ==
  /\ last.op = "stop_one" /\ last.code = 200
  /\ LET i == arg(last.args[1])
     IN /\ last.pre.sv.attached[i] /\ last.pre.sv.power[i] # 0
        /\ last.pre.sv.pulseActive[i]
        /\ ~servoAttached[i]

\* C4: a pulse armed on servo i at t0 for d in [1, 30000] ms ends at t0 + d;
\* a tick before that time leaves the servo's power and schedule unchanged,
\* the first tick at or after it sets the power to 0 and deactivates the
\* schedule, and a tick never writes the power of a servo with no schedule.
C4_PulseAutoRevert ==
  /\ (/\ last.op = "scheduleServoStop"
      /\ last.args[1] < SERVO_COUNT
      /\ last.args[2] \in 1..30000) =>
       /\ servoPulseActive[last.args[1]]
       /\ servoPulseEndTime[last.args[1]] = millis + last.args[2]
  /\ (last.op = "loop") =>
       \A i \in Servos :
         IF last.pre.sv.pulseActive[i]
           THEN IF millis < last.pre.sv.pulseEnd[i]
                  THEN /\ currentPower[i] = last.pre.sv.power[i]
                       /\ servoPulseActive[i]
                       /\ servoPulseEndTime[i] = last.pre.sv.pulseEnd[i]
                  ELSE currentPower[i] = 0 /\ ~servoPulseActive[i]
           ELSE currentPower[i] = last.pre.sv.power[i] /\ ~servoPulseActive[i]

\* C4 witness: a tick exactly at the end time stops a servo that was running,
\* while another servo's pulse, armed for longer, is left alone.
C4_Witness ==
  /\ last.op = "loop"
  /\ \E i, j \in Servos :
       /\ last.pre.sv.pulseActive[i] /\ last.pre.sv.power[i] # 0
       /\ millis = last.pre.sv.pulseEnd[i]
       /\ currentPower[i] = 0 /\ ~servoPulseActive[i]
       /\ last.pre.sv.pulseActive[j] /\ millis < last.pre.sv.pulseEnd[j]
       /\ servoPulseActive[j]

\* The steps the sequence engine can still dispatch: slots 0 .. seqStepCount-1.
LiveSteps == SubSeq(seqSteps, 1, seqStepCount)

\* C5: an accepted seq_run, in any state, leaves the engine running at step 0
\* with no step active, every servo at power 0 and every pulse schedule
\* inactive, and the steps that can be dispatched are the new file's; a tick
\* that dispatches a step takes it from those steps, at the engine's index.
C5_LoadPreempts ==
  /\ (last.op = "seq_run" /\ last.code = 200) =>
       /\ seqRunning /\ seqStepIndex = 0 /\ ~seqStepActive
       /\ \A i \in Servos : currentPower[i] = 0 /\ ~servoPulseActive[i]
       /\ LiveSteps = StoredSteps(makeSeqPath(arg(last.args[1])))
  /\ (last.op = "loop" /\ last.event = "dispatch") =>
       LET q == last.pre.sq
       IN /\ q.running /\ q.index < q.count
          /\ seqStepIndex = q.index + 1
          /\ seqSteps = q.steps /\ seqStepCount = q.count
          /\ currentPower[q.steps[q.index + 1].servo] = q.steps[q.index + 1].power

\* C5 witness: sequence b is loaded while a step of sequence a is running.
C5_Witness ==
  /\ last.op = "seq_run" /\ last.code = 200
  /\ last.pre.sq.running /\ last.pre.sq.active
  /\ \E i \in Servos : last.pre.sv.power[i] # 0
  /\ SubSeq(last.pre.sq.steps, 1, last.pre.sq.count) = StepsA
  /\ LiveSteps = StepsB

\* C6: a tick of a running sequence with no active step and no step left sets
\* every servo's power to 0 and clears running; running becomes true only by
\* an accepted seq_run, and a tick of a stopped engine changes nothing of it.
C6_EndOfRun ==
  /\ (/\ last.op = "loop"
      /\ last.pre.sq.running /\ ~last.pre.sq.active
      /\ last.pre.sq.index >= last.pre.sq.count) =>
       /\ ~seqRunning
       /\ \A i \in Servos : currentPower[i] = 0
  /\ (/\ last.op # "setup"
      /\ ~(last.op = "seq_run" /\ last.code = 200)
      /\ ~last.pre.sq.running) => ~seqRunning
  /\ (last.op = "loop" /\ ~last.pre.sq.running) =>
       /\ last.event = "idle"
       /\ SeqState = last.pre.sq
       /\ \A i \in Servos \ last.fired : currentPower[i] = last.pre.sv.power[i]

\* C6 witness: the tick that ends sequence a, a servo still driven by its
\* second step.
C6_Witness ==
  /\ last.op = "loop" /\ last.event = "finish"
  /\ last.pre.sq.index = 3 /\ last.pre.sq.count = 3
  /\ \E i \in Servos : last.pre.sv.power[i] # 0
  /\ ~seqRunning
  /\ \A i \in Servos : currentPower[i] = 0

\* C7: a seq_run that is refused leaves the servos' power, attachment and pulse
\* schedules and the engine's running, index, active flag and stored steps as
\* they were.
C7_RejectedLoadChangesNothing ==
  (last.op = "seq_run" /\ last.code # 200) =>
    /\ ServoState = last.pre.sv
    /\ seqRunning = last.pre.sq.running
    /\ seqStepIndex = last.pre.sq.index
    /\ seqStepActive = last.pre.sq.active
    /\ seqSteps = last.pre.sq.steps
    /\ seqStepCount = last.pre.sq.count

\* C8: seq_run of a file with no command line (comment, blank and unparsable
\* lines only) is answered with an error and leaves the engine stopped with
\* no step to dispatch.
C8_EmptyListRejected ==
  (/\ last.op = "seq_run" /\ hasArg(last.args[1]) /\ last.args[2]
   /\ makeSeqPath(arg(last.args[1])) = PathE) =>
    /\ last.code = 400
    /\ ~seqRunning
    /\ seqStepCount = 0

\* C8 witness: the file is requested while another sequence is running.
C8_Witness ==
  /\ last.op = "seq_run" /\ hasArg(last.args[1]) /\ last.args[2]
  /\ makeSeqPath(arg(last.args[1])) = PathE
  /\ last.pre.sq.running
  /\ last.code = 400 /\ ~seqRunning

\* C9: seq_run of a file with more than MAX_SEQ_STEPS command lines is
\* answered with an error, commits no step and starts no run.
C9_OverCapacityRejected ==
  (/\ last.op = "seq_run" /\ hasArg(last.args[1]) /\ last.args[2]
   /\ makeSeqPath(arg(last.args[1])) = PathBig) =>
    /\ last.code >= 400
    /\ ~seqRunning
    /\ seqStepCount = 0

\* The command lines of seq_a.txt, in the file's order.
ValidLinesA ==
  <<[servo |-> 0, power |-> 50, durationMs |-> 10],
    [servo |-> 1, power |-> -50, durationMs |-> 0],
    [servo |-> 0, power |-> 0, durationMs |-> 10]>>

\* C10: seq_run of a file that mixes command lines with a comment, blank
\* lines, lines with fewer than two commas and a line naming servo 7 is
\* accepted, and the stored steps are the command lines in the file's order.
C10_MalformedLinesSkipped ==
  (/\ last.op = "seq_run" /\ hasArg(last.args[1]) /\ last.args[2]
   /\ makeSeqPath(arg(last.args[1])) = PathA) =>
    /\ last.code = 200
    /\ seqStepCount = 3
    /\ LiveSteps = ValidLinesA

\* C10 witness: the file has been loaded and its three steps are ready to run.
C10_Witness ==
  /\ last.op = "seq_run" /\ last.code = 200
  /\ makeSeqPath(arg(last.args[1])) = PathA
  /\ LiveSteps = ValidLinesA
  /\ seqRunning

\* C11: a tick dispatches a step only when the run has no step active and a
\* step is left; it then applies the step at seqStepIndex, and no other, and
\* moves seqStepIndex up by one.  Every other tick, and every request other
\* than seq_run, leaves seqStepIndex and the stored steps as they were, and a
\* step that was started stays active until its time has passed.
C11_StrictStepOrder ==
  /\ (last.op = "loop") =>
       LET q == last.pre.sq
           due == q.running /\ ~q.active /\ q.index < q.count
       IN /\ seqSteps = q.steps /\ seqStepCount = q.count
          /\ IF due
               THEN LET st == q.steps[q.index + 1]
                    IN /\ seqStepIndex = q.index + 1
                       /\ currentPower[st.servo] = st.power
                       /\ \A j \in Servos \ ({st.servo} \cup last.fired) :
                            currentPower[j] = last.pre.sv.power[j]
                       /\ seqStepActive = (st.durationMs > 0)
               ELSE seqStepIndex = q.index
          /\ (q.running /\ q.active) => (seqStepActive = (millis < q.endTime))
  /\ (last.op \notin {"setup", "loop", "seq_run"}) =>
       /\ seqStepIndex = last.pre.sq.index
       /\ seqSteps = last.pre.sq.steps
       /\ seqStepCount = last.pre.sq.count

\* C11 witness: the tick that dispatches the second step of sequence a, the
\* first step's power still on its servo.
C11_Witness ==
  /\ last.op = "loop"
  /\ last.pre.sq.running /\ ~last.pre.sq.active
  /\ last.pre.sq.index = 1 /\ LiveSteps = ValidLinesA
  /\ last.pre.sv.power[0] = 50
  /\ seqStepIndex = 2
  /\ currentPower[1] = -50 /\ currentPower[0] = 50

\* The power magnitude the claims give a requested power p: |p|, 50 for 0,
\* at most 100.
AngleAbsPower(p) ==
  LET m == IF p < 0 THEN -p ELSE p
  IN IF m = 0 THEN 50 ELSE IF m > 100 THEN 100 ELSE m

\* floor(ft * |a| / 360 * 100 / p) in exact arithmetic.
ExactAngleQuotient(ft, a, p) ==
  ((ft * (IF a < 0 THEN -a ELSE a)) * 100) \div (360 * p)

DurationClamp(x) == IF x < 10 THEN 10 ELSE IF x > 30000 THEN 30000 ELSE x

C13_StopIdempotent ==
  (last.op = "stop_one" /\ last.code = 200) =>
    /\ handleApiStopOne(ServoState, last.args[1]).code = 200
    /\ handleApiStopOne(ServoState, last.args[1]).sv = ServoState
    /\ SeqState = last.pre.sq

\* C13 witness: the first stop changed the servo (attached, running, pulse
\* armed, a sequence running), the second would change nothing.
C13_Witness ==
  /\ last.op = "stop_one" /\ last.code = 200
  /\ last.pre.sv.attached[arg(last.args[1])]
  /\ last.pre.sv.power[arg(last.args[1])] # 0
  /\ last.pre.sq.running
  /\ ServoState # last.pre.sv
  /\ stopServo(ServoState, arg(last.args[1])) = ServoState

\* C14: millis is the two's-complement reading of the 32-bit counter, which
\* wraps to zero where millis goes from -1 to 0, so that the order of the
\* integers is the order of the instants.  An end time is the arming time
\* plus the duration, wrapped or not; a tick treats a pulse, or a sequence
\* step, as elapsed exactly when the tick's instant is not before the end
\* time, also when the two lie on different sides of the wraparound.
C14_WrapSafeDeadlines ==
  /\ (/\ last.op = "scheduleServoStop"
      /\ last.args[1] < SERVO_COUNT /\ last.args[2] \in 1..30000) =>
       servoPulseEndTime[last.args[1]] = millis + last.args[2]
  /\ (last.op = "loop") =>
       LET q == last.pre.sq
       IN /\ last.fired = {i \in Servos : /\ last.pre.sv.pulseActive[i]
                                          /\ millis >= last.pre.sv.pulseEnd[i]}
          /\ (q.running /\ q.active) =>
               /\ last.event = (IF millis >= q.endTime THEN "expire" ELSE "wait")
               /\ seqStepActive = (millis < q.endTime)
          /\ (last.event = "dispatch" /\ seqStepActive) =>
               seqStepEndTime = millis + q.steps[q.index + 1].durationMs

\* C14 witness: a tick one instant before the wraparound; a pulse and a
\* sequence step whose end times lie past it are both left pending.
C14_Witness ==
  /\ last.op = "loop" /\ millis < 0
  /\ \E i \in Servos :
       /\ last.pre.sv.pulseActive[i] /\ last.pre.sv.pulseEnd[i] >= 0
       /\ servoPulseActive[i]
  /\ last.pre.sq.running /\ last.pre.sq.active /\ last.pre.sq.endTime >= 0
  /\ seqStepActive

\* C14 second witness: after the wraparound, a tick at the end time ends a
\* step that was started before it.
C14_WitnessElapsed ==
  /\ last.op = "loop" /\ last.event = "expire"
  /\ millis = last.pre.sq.endTime /\ millis \in 0..8

----------------------------------------------------------------------------
\* C15: one pass of loop() runs the pulse scheduler once and then the sequence
\* engine once.  Every pulse that was due has been cleared and no other pulse is
\* touched by the pulse scheduler; a servo whose pulse
\* was due is at power 0 unless the sequence engine started a step in the same
\* pass, and then the servo of that step is at the step's power, attached, even
\* when its own pulse reverted in this pass; the sequence engine has moved by at
\* most one step.
C15_SequenceWinsTick ==
  (last.op = "loop") =>
    LET q == last.pre.sq
        dispatched == last.event = "dispatch"
        st == StepAt(q.steps, q.index)
    IN /\ \A i \in last.fired : ~servoPulseActive[i]
       /\ servoPulseEndTime = last.pre.sv.pulseEnd
       /\ \A i \in Servos \ last.fired :
            (~(dispatched /\ st.servo = i) /\ last.event # "finish") =>
              servoPulseActive[i] = last.pre.sv.pulseActive[i]
       /\ dispatched = (q.running /\ ~q.active /\ q.index < q.count)
       /\ seqStepIndex = IF dispatched THEN q.index + 1 ELSE q.index
       /\ dispatched =>
            /\ currentPower[st.servo] = st.power
            /\ servoAttached[st.servo]
       /\ \A i \in last.fired :
            (~(dispatched /\ st.servo = i) /\ last.event # "finish") =>
              currentPower[i] = 0

\* A pass in which the pulse of servo 0, driven at power 100, was due and the
\* sequence engine started a step for servo 0 at power 50.
C15_Witness ==
  /\ last.op = "loop"
  /\ last.event = "dispatch"
  /\ LET st == StepAt(last.pre.sq.steps, last.pre.sq.index)
     IN /\ st.servo \in last.fired
        /\ last.pre.sv.power[st.servo] = 100
        /\ st.power = 50
        /\ currentPower[st.servo] = 50

----------------------------------------------------------------------------
\* C16: seqRunning goes from true to false only in a seq_run request or in the
\* pass of loop() that finds the step list exhausted; every other operation
\* (move, move_angle, center, stop, set_pin, save_config, the calibration
\* requests, and setServoPower, stopServo, scheduleServoStop, moveServoByAngle
\* called directly) leaves seqRunning, seqStepIndex, seqStepActive and
\* seqStepEndTime as they were.
C16_OnlyLoadCancels ==
  (last.op # "setup") =>
    /\ (last.pre.sq.running /\ ~seqRunning) =>
         \/ last.op = "seq_run"
         \/ last.op = "loop" /\ last.event = "finish"
                             /\ last.pre.sq.index >= last.pre.sq.count
    /\ (last.op \notin {"seq_run", "loop"}) =>
         /\ seqRunning = last.pre.sq.running
         /\ seqStepIndex = last.pre.sq.index
         /\ seqStepActive = last.pre.sq.active
         /\ seqStepEndTime = last.pre.sq.endTime

\* stop_all was served in the middle of a run, with a step in progress, and the
\* run goes on.
C16_Witness ==
  /\ last.op = "stop_all"
  /\ last.code = 200
  /\ last.pre.sq.running
  /\ last.pre.sq.active
  /\ last.pre.sq.index = 1
  /\ seqRunning
  /\ seqStepActive

----------------------------------------------------------------------------
IndexedOps ==
  {"move", "move_angle", "center_one", "stop_one", "set_pin", "calib_set_fullturn",
   "calib_center_here"}

\* The request was answered with an error and no servo's pin, power, attached
\* flag or pulse schedule has changed.
RejectedUnchanged ==
  /\ last.code >= 400
  /\ SERVO_PINS = last.pre.pins
  /\ ServoState = last.pre.sv

\* A request whose servo argument is not in 0..5 is rejected with no change.
C17_BadIndexRejected ==
  (last.op \in IndexedOps /\ hasArg(last.args[1])
     /\ arg(last.args[1]) \notin Servos) => RejectedUnchanged

\* A set_pin request whose gpio argument is not one of GPIO_OPTIONS is rejected
\* with no change.
C17_BadChannelRejected ==
  (last.op = "set_pin" /\ hasArg(last.args[1]) /\ hasArg(last.args[2])
     /\ arg(last.args[2]) \notin GPIO_OPTIONS) => RejectedUnchanged

\* C17: a request whose servo index is outside 0..5, and a set_pin request whose
\* gpio is any integer outside GPIO_OPTIONS (values above 255 too), is answered
\* with an error and leaves every servo's pin, power, attached flag and pulse
\* schedule as they were.
C17_InvalidRequestRejected ==
  C17_BadIndexRejected /\ C17_BadChannelRejected

----------------------------------------------------------------------------
\* After an accepted set_pin(i, g): servo i is detached, at power 0, with no
\* pulse armed, whatever its state was, and no other servo's pin, power,
\* attached flag or pulse schedule has changed.
C18_ForcedStopAndFrame ==
  (last.op = "set_pin" /\ last.code = 200) =>
    LET i == arg(last.args[1])
    IN /\ ~servoAttached[i]
       /\ currentPower[i] = 0
       /\ ~servoPulseActive[i]
       /\ \A j \in Servos \ {i} :
            /\ SERVO_PINS[j] = last.pre.pins[j]
            /\ currentPower[j] = last.pre.sv.power[j]
            /\ servoAttached[j] = last.pre.sv.attached[j]
            /\ servoPulseActive[j] = last.pre.sv.pulseActive[j]
            /\ servoPulseEndTime[j] = last.pre.sv.pulseEnd[j]

\* C18: an accepted set_pin(i, g) leaves servo i detached, at power 0, with no
\* pulse armed, in every prior state of i; SERVO_PINS[i] is g; and the pin,
\* power, attached flag and pulse schedule of every other servo are unchanged.
C18_SetPinPostcondition ==
  /\ C18_ForcedStopAndFrame
  /\ (last.op = "set_pin" /\ last.code = 200) =>
       SERVO_PINS[arg(last.args[1])] = arg(last.args[2])

\* set_pin(0, 4) was accepted while servo 0 was attached, driven and pulsed.
C18_ForcedStopReached ==
  /\ last.op = "set_pin"
  /\ last.code = 200
  /\ last.args = << <<0>>, <<4>> >>
  /\ last.pre.sv.attached[0]
  /\ last.pre.sv.power[0] # 0
  /\ last.pre.sv.pulseActive[0]
  /\ SERVO_PINS[0] = 4

----------------------------------------------------------------------------
\* C19: after center_all every servo is at power 0 and none has been detached:
\* a servo that was attached is still attached (a detached one is attached by
\* the call), and no pulse is armed.
C19_CenterAllKeepsAttached ==
  (last.op = "center_all") =>
    /\ last.code = 200
    /\ \A i \in Servos :
         /\ currentPower[i] = 0
         /\ last.pre.sv.attached[i] => servoAttached[i]
         /\ servoAttached[i]
         /\ ~servoPulseActive[i]
    /\ SERVO_PINS = last.pre.pins

\* center_all was served while servo 0 was attached, driven and pulsed and
\* servo 5 was detached.
C19_Witness ==
  /\ last.op = "center_all"
  /\ last.pre.sv.attached[0]
  /\ last.pre.sv.power[0] # 0
  /\ last.pre.sv.pulseActive[0]
  /\ ~last.pre.sv.attached[5]
  /\ servoAttached[0]
  /\ currentPower[0] = 0

----------------------------------------------------------------------------
\* C20: moveServoByAngle(i, 0, p) changes nothing.  For angleDeg # 0 it leaves
\* servo i attached, at power sign(angleDeg) * clamp(|p|, 1, 100) with |p| = 0
\* taken as 50, with a pulse armed to end at now + computeDurationForAngle (a
\* duration in 10..30000), and servoCurrentDeg[i] larger by exactly angleDeg,
\* also when the duration was clamped; no other servo changes.
C20_MoveByAnglePostcondition ==
  (last.op = "moveServoByAngle" /\ last.args[1] \in Servos) =>
    LET i == last.args[1]
        angleDeg == last.args[2]
        p == AngleAbsPower(last.args[3])
        d == computeDurationForAngle(last.pre.ft, i, angleDeg, p)
    IN IF angleDeg = 0
         THEN /\ ServoState = last.pre.sv
              /\ servoCurrentDeg = last.pre.deg
              /\ Snapshot = last.pre
         ELSE /\ servoAttached[i]
              /\ currentPower[i] = IF angleDeg > 0 THEN p ELSE -p
              /\ p \in 1..100
              /\ servoPulseActive[i]
              /\ d \in 10..30000
              /\ servoPulseEndTime[i] = AddMillis(millis, d)
              /\ servoCurrentDeg[i] = last.pre.deg[i] + angleDeg
              /\ \A j \in Servos \ {i} :
                   /\ currentPower[j] = last.pre.sv.power[j]
                   /\ servoAttached[j] = last.pre.sv.attached[j]
                   /\ servoPulseActive[j] = last.pre.sv.pulseActive[j]
                   /\ servoPulseEndTime[j] = last.pre.sv.pulseEnd[j]
                   /\ servoCurrentDeg[j] = last.pre.deg[j]

\* moveServoByAngle(0, 180, -3) with a full turn of 60000 ms: the duration is
\* cut to 30000 ms, the power is +3 and the position has moved on by 180.
C20_Witness ==
  /\ last.op = "moveServoByAngle"
  /\ last.args = <<0, 180, -3>>
  /\ last.pre.ft[0] = 60000
  /\ last.pre.deg[0] # 0
  /\ currentPower[0] = 3
  /\ servoPulseEndTime[0] = AddMillis(millis, 30000)
  /\ servoCurrentDeg[0] = last.pre.deg[0] + 180

\* moveServoByAngle(0, 0, p) on a driven, pulsed servo.
C20_WitnessZero ==
  /\ last.op = "moveServoByAngle"
  /\ last.args[2] = 0
  /\ last.pre.sv.pulseActive[0]
  /\ currentPower[0] # 0

----------------------------------------------------------------------------
\* The time the steps in slots 0..n-1 take, one after another.
RECURSIVE RunLength(_, _)
RunLength(steps, n) ==
  IF n = 0 THEN 0 ELSE RunLength(steps, n - 1) + steps[n].durationMs

\* What is left of the clock's range.
ClockLeft == MaxElapsed - (millis + WrapLead)

\* Request number n was a seq_run that started a run, just now.
LoadedAs(n) ==
  /\ last.op = "seq_run" /\ last.code = 200 /\ reqCount = n
  /\ seqRunning

\* loop() has just ended the run, every step having been dispatched.
RunCompleted ==
  /\ last.op = "loop" /\ last.event = "finish"
  /\ last.pre.sq.running /\ ~seqRunning
  /\ seqStepIndex = seqStepCount /\ seqStepCount > 0

\* C21: with loop() called again and again and the clock advancing, a run that
\* seq_run has started (and that fits in what is left of the clock's range)
\* leads to the pass of loop() that ends it with all of its steps dispatched,
\* unless another seq_run request comes first.
C21_RunTerminates ==
  \A n \in 1..(MaxRequests + 1) :
    (LoadedAs(n) /\ RunLength(seqSteps, seqStepCount) <= ClockLeft)
      ~> (RunCompleted \/ (last.op = "seq_run" /\ reqCount > n))

\* The run of seq_a.txt has been ended by loop() after its three steps, past
\* the point where the clock wraps.
C21_Witness ==
  /\ RunCompleted
  /\ seqStepCount = 3
  /\ millis >= 0
  /\ \A i \in Servos : currentPower[i] = 0

----------------------------------------------------------------------------
\* The operation just done armed a pulse of d ms on servo i.
ArmedBy(i, d) ==
  \/ /\ last.op = "scheduleServoStop"
     /\ last.args[1] = i /\ last.args[2] = d /\ d > 0
  \/ /\ last.op = "moveServoByAngle"
     /\ last.args[1] = i /\ last.args[2] # 0
     /\ d = computeDurationForAngle(last.pre.ft, i, last.args[2],
                                    AngleAbsPower(last.args[3]))

\* C22: a pulse armed on servo i while one is active replaces it.  The one
\* schedule of i ends at the time of the latest arm plus the latest duration,
\* whatever the end time was before, and a pass of loop() reverts servo i only
\* when that end time has come: an end time that was replaced reverts nothing.
\* (In the same pass the sequence engine may still set the servo's power.)
C22_RearmReplaces ==
  /\ \A i \in Servos, d \in {1, 8, 10, 30000, 40000} :
       (ArmedBy(i, d) /\ last.pre.sv.pulseActive[i]) =>
         /\ servoPulseActive[i]
         /\ servoPulseEndTime[i] = AddMillis(millis, clampInt(d, 0, 30000))
  /\ (last.op = "loop") =>
       \A i \in Servos :
         (last.pre.sv.pulseActive[i] /\ millis < last.pre.sv.pulseEnd[i]) =>
           /\ i \notin last.fired
           /\ servoPulseEndTime[i] = last.pre.sv.pulseEnd[i]
           /\ (last.event \notin {"dispatch", "finish"}) =>
                /\ servoPulseActive[i]
                /\ currentPower[i] = last.pre.sv.power[i]

\* A pulse of 1 ms on servo 0 was replaced by one of 10 ms armed at the same
\* time: the end moves from 1 ms ahead to 10 ms ahead, not to 11.
C22_Witness ==
  /\ ArmedBy(0, 10)
  /\ last.pre.sv.pulseActive[0]
  /\ last.pre.sv.pulseEnd[0] = AddMillis(millis, 1)
  /\ servoPulseActive[0]
  /\ servoPulseEndTime[0] = AddMillis(millis, 10)

\* A pass of loop() at or after an end time that was replaced, before the end
\* time now in force: servo 0 keeps its power.
C22_WitnessNoRevert ==
  /\ last.op = "loop"
  /\ reqCount = 2
  /\ last.pre.sv.pulseActive[0]
  /\ last.pre.sv.power[0] = 100
  /\ last.pre.sv.pulseEnd[0] = 0
  /\ millis = 1 - WrapLead
  /\ currentPower[0] = 100

----------------------------------------------------------------------------
\* C23: setServoPower(i, p) with p clamped to 0 leaves no pulse armed on servo
\* i; with p clamped to a value other than 0 it leaves the pulse schedule of i,
\* flag and end time, as it was.  The end time is never written.
C23_ZeroCancelsPulse ==
  (last.op = "setServoPower" /\ last.args[1] \in Servos) =>
    LET i == last.args[1]
        p == last.args[2]
    IN /\ servoPulseEndTime = last.pre.sv.pulseEnd
       /\ IF p = 0
            THEN ~servoPulseActive[i]
            ELSE servoPulseActive[i] = last.pre.sv.pulseActive[i]
       /\ \A j \in Servos \ {i} :
            servoPulseActive[j] = last.pre.sv.pulseActive[j]

\* setServoPower(0, -250) on a servo with a pulse armed: the power is -100 and
\* the pulse is still armed.
C23_Witness ==
  /\ last.op = "setServoPower"
  /\ last.args = <<0, -250>>
  /\ last.pre.sv.pulseActive[0]
  /\ servoPulseActive[0]
  /\ currentPower[0] = -100

\* setServoPower(0, 0) on a servo with a pulse armed: the pulse is cancelled.
C23_WitnessZero ==
  /\ last.op = "setServoPower"
  /\ last.args = <<0, 0>>
  /\ last.pre.sv.pulseActive[0]
  /\ ~servoPulseActive[0]

----------------------------------------------------------------------------
\* C24: scheduleServoStop(i, d) with d <= 0 leaves no pulse armed on servo i;
\* with d > 0 it leaves one armed that ends at now + min(d, 30000).  Neither
\* case changes the power or the attached flag of any servo, or the pulse
\* schedule of another servo.
C24_ArmPostcondition ==
  (last.op = "scheduleServoStop" /\ last.args[1] \in Servos) =>
    LET i == last.args[1]
        d == last.args[2]
    IN /\ IF d <= 0
            THEN ~servoPulseActive[i]
            ELSE /\ servoPulseActive[i]
                 /\ servoPulseEndTime[i] =
                      AddMillis(millis, IF d < 30000 THEN d ELSE 30000)
       /\ currentPower = last.pre.sv.power
       /\ servoAttached = last.pre.sv.attached
       /\ \A j \in Servos \ {i} :
            /\ servoPulseActive[j] = last.pre.sv.pulseActive[j]
            /\ servoPulseEndTime[j] = last.pre.sv.pulseEnd[j]

\* scheduleServoStop(0, 40000) on a driven servo: the pulse ends 30000 ms on.
C24_Witness ==
  /\ last.op = "scheduleServoStop"
  /\ last.args = <<0, 40000>>
  /\ last.pre.sv.power[0] # 0
  /\ currentPower[0] = last.pre.sv.power[0]
  /\ servoAttached[0]
  /\ servoPulseActive[0]
  /\ servoPulseEndTime[0] = AddMillis(millis, 30000)

\* scheduleServoStop(0, -5) on a servo with a pulse armed: the pulse is gone.
C24_WitnessDisarm ==
  /\ last.op = "scheduleServoStop"
  /\ last.args = <<0, -5>>
  /\ last.pre.sv.pulseActive[0]
  /\ ~servoPulseActive[0]

----------------------------------------------------------------------------
\* C25: when a pass of loop() finds the pulse of servo i ended, servo i is left
\* at power 0, attached, with no pulse armed, and the pulse scheduler changes no
\* other servo: in a pass where the sequence engine sets no power, every servo
\* whose pulse had not ended is as it was.
C25_RevertKeepsAttached ==
  (last.op = "loop") =>
    LET engineWrites == last.event \in {"dispatch", "finish"}
        st == StepAt(last.pre.sq.steps, last.pre.sq.index)
    IN /\ \A i \in last.fired :
            /\ servoAttached[i]
            /\ ~servoPulseActive[i]
            /\ servoPulseEndTime[i] = last.pre.sv.pulseEnd[i]
            /\ ~(last.event = "dispatch" /\ st.servo = i) => currentPower[i] = 0
       /\ ~engineWrites =>
            \A j \in Servos \ last.fired :
              /\ currentPower[j] = last.pre.sv.power[j]
              /\ servoAttached[j] = last.pre.sv.attached[j]
              /\ servoPulseActive[j] = last.pre.sv.pulseActive[j]
              /\ servoPulseEndTime[j] = last.pre.sv.pulseEnd[j]
       /\ SERVO_PINS = last.pre.pins
       /\ servoCurrentDeg = last.pre.deg

\* The pulse of servo 0, attached and driven, has ended while the pulse of
\* servo 1 is still running: servo 0 is stopped and stays attached, servo 1 is
\* untouched.
C25_Witness ==
  /\ last.op = "loop"
  /\ last.fired = {0}
  /\ last.pre.sv.attached[0]
  /\ last.pre.sv.power[0] # 0
  /\ last.pre.sv.pulseActive[1]
  /\ servoAttached[0]
  /\ currentPower[0] = 0
  /\ servoPulseActive[1]

----------------------------------------------------------------------------
\* C26: after the pass of loop() that ends a run, no servo is attached.
C26_EndOfRunDetaches ==
  (last.op = "loop" /\ last.event = "finish") =>
    \A i \in Servos : ~servoAttached[i]

\* What the pass that ends a run leaves: every servo attached, at power 0.
C26_EndOfRunAttachesAll ==
  (last.op = "loop" /\ last.event = "finish") =>
    \A i \in Servos : servoAttached[i] /\ currentPower[i] = 0

----------------------------------------------------------------------------
\* C27: one pass of loop() starts at most one step.  A pass that starts a step
\* of durationMs 0 leaves seqStepActive false and the run going, with
\* seqStepIndex one further and only that step's servo written: the step after
\* it, or the end of the run, is left to a later pass.
C27_OneStepPerTick ==
  (last.op = "loop") =>
    LET q == last.pre.sq
        st == StepAt(q.steps, q.index)
    IN /\ seqStepIndex \in {q.index, q.index + 1}
       /\ (seqStepIndex = q.index + 1) = (last.event = "dispatch")
       /\ (last.event = "dispatch" /\ st.durationMs = 0) =>
            /\ ~seqStepActive
            /\ seqRunning
            /\ currentPower[st.servo] = st.power
            /\ \A j \in Servos \ ({st.servo} \cup last.fired) :
                 currentPower[j] = last.pre.sv.power[j]

\* The pass that starts the second step of seq_a.txt (1,-50,0): the third step
\* (0,0,10) has not touched servo 0, which is still at 50.
C27_Witness ==
  /\ last.op = "loop"
  /\ last.event = "dispatch"
  /\ last.pre.sq.index = 1
  /\ StepAt(last.pre.sq.steps, 1) = [servo |-> 1, power |-> -50, durationMs |-> 0]
  /\ seqStepIndex = 2
  /\ ~seqStepActive
  /\ currentPower[1] = -50
  /\ currentPower[0] = 50

\* The pass that starts the last step of seq_big.txt, a step of no duration:
\* the run is still going.
C27_WitnessLastStep ==
  /\ last.op = "loop"
  /\ last.event = "dispatch"
  /\ seqStepIndex = seqStepCount
  /\ seqStepCount = MAX_SEQ_STEPS
  /\ ~seqStepActive
  /\ seqRunning

----------------------------------------------------------------------------
\* C28: a step of durationMs d > 0 started at time t leaves seqStepActive set
\* and seqStepEndTime = t + d.  While the step is active a pass of loop() before
\* t + d changes nothing in the engine and writes no power; the first pass at
\* or after t + d clears seqStepActive and does nothing else: seqStepIndex and
\* seqRunning stay, no power is written, so the next step (or the end of the
\* run) needs a later pass.
C28_TimedStepHolds ==
  (last.op = "loop") =>
    LET q == last.pre.sq
        st == StepAt(q.steps, q.index)
        untouched == \A j \in Servos \ last.fired :
                       currentPower[j] = last.pre.sv.power[j]
    IN /\ (last.event = "dispatch" /\ st.durationMs > 0) =>
            /\ seqStepActive
            /\ seqStepEndTime = AddMillis(millis, st.durationMs)
       /\ (q.running /\ q.active /\ millis < q.endTime) =>
            /\ last.event = "wait"
            /\ SeqState = q
            /\ untouched
       /\ (q.running /\ q.active /\ millis >= q.endTime) =>
            /\ last.event = "expire"
            /\ SeqState = [q EXCEPT !.active = FALSE]
            /\ seqRunning
            /\ untouched

\* The first step of seq_a.txt (0,50,10) has run its 10 ms: the pass clears
\* seqStepActive and leaves the second step (1,-50,0) for a later pass.
C28_Witness ==
  /\ last.op = "loop"
  /\ last.event = "expire"
  /\ last.pre.sq.index = 1
  /\ millis >= last.pre.sq.endTime
  /\ seqStepIndex = 1
  /\ ~seqStepActive
  /\ seqRunning
  /\ currentPower[0] = 50
  /\ currentPower[1] = 0

\* A pass 1 ms before the end of the first step, across the clock's wrap.
C28_WitnessWait ==
  /\ last.op = "loop"
  /\ last.event = "wait"
  /\ millis = -1
  /\ seqStepEndTime = 0
  /\ seqStepActive

----------------------------------------------------------------------------
\* C29: an accepted calib_center_here(i) sets servoCenterDeg[i] to what
\* servoCurrentDeg[i] was and servoCurrentDeg[i] to 0.  The two values of the
\* other servos, and the power, attached flag, pulse schedule and full-turn time
\* of every servo, the pins and all sequence state are as they were.
C29_CenterHereBookkeeping ==
  (last.op = "calib_center_here" /\ last.code = 200) =>
    LET i == arg(last.args[1])
    IN /\ servoCenterDeg = [last.pre.center EXCEPT ![i] = last.pre.deg[i]]
       /\ servoCurrentDeg = [last.pre.deg EXCEPT ![i] = 0]
       /\ ServoState = last.pre.sv
       /\ servoFullTurnMs = last.pre.ft
       /\ SERVO_PINS = last.pre.pins
       /\ SeqState = last.pre.sq

\* calib_center_here(0) after move_angle(0, -90): the centre is -90, the
\* position 0, and servo 0 is still being driven with its pulse armed.
C29_Witness ==
  /\ last.op = "calib_center_here"
  /\ last.code = 200
  /\ last.args = << <<0>> >>
  /\ last.pre.deg[0] = -90
  /\ servoCenterDeg[0] = -90
  /\ servoCurrentDeg[0] = 0
  /\ currentPower[0] # 0
  /\ servoPulseActive[0]

----------------------------------------------------------------------------
\* C30: an accepted calib_set_fullturn(i, ms) stores ms clamped to 100..60000
\* as servoFullTurnMs[i] and leaves the other servos' times, every servo's
\* position, centre, power, attached flag and pulse schedule, and the sequence
\* state as they were.  With the default of 1000 and the same clamp on the
\* values read from config.txt, servoFullTurnMs[i] is in 100..60000, so above
\* 0, in every state.
C30_FullTurnClamped ==
  /\ \A i \in Servos : servoFullTurnMs[i] \in 100..60000
  /\ (last.op = "calib_set_fullturn" /\ last.code = 200) =>
       LET i == arg(last.args[1])
           ms == arg(last.args[2])
       IN /\ servoFullTurnMs =
               [last.pre.ft EXCEPT ![i] = IF ms < 100 THEN 100
                                          ELSE IF ms > 60000 THEN 60000 ELSE ms]
          /\ servoCurrentDeg = last.pre.deg
          /\ servoCenterDeg = last.pre.center
          /\ ServoState = last.pre.sv
          /\ SeqState = last.pre.sq

\* calib_set_fullturn(0, 50) while servo 0 is turning with its pulse armed: the
\* time stored is 100, and the position, the power and the pulse's end are as
\* they were.
C30_Witness ==
  /\ last.op = "calib_set_fullturn"
  /\ last.code = 200
  /\ last.args = << <<0>>, <<50>> >>
  /\ last.pre.ft[0] = 60000
  /\ servoFullTurnMs[0] = 100
  /\ servoCurrentDeg[0] = -90
  /\ currentPower[0] = -50
  /\ servoPulseActive[0]
  /\ servoPulseEndTime[0] = last.pre.sv.pulseEnd[0]

----------------------------------------------------------------------------
\* C31: powerToPulse gives 1000 us for -100, 1500 us for 0 and 2000 us for 100,
\* 1500 + 5 * p for every p in -100..100, 1000 below -100 and 2000 above 100,
\* and never less for a power than for the power one below it.
C31_PowerToPulse ==
  (last.op = "powerToPulse") =>
    LET p == last.args[1]
        us == last.code
    IN /\ (p = -100) => (us = SERVO_MIN_US)
       /\ (p = 0) => (us = SERVO_NEUTRAL_US)
       /\ (p = 100) => (us = SERVO_MAX_US)
       /\ (p \in -100..100) => (us = 1500 + 5 * p)
       /\ (p < -100) => (us = 1000)
       /\ (p > 100) => (us = 2000)
       /\ powerToPulse(p - 1) <= us
       /\ \A q \in PulsePowerIn : (q <= p) => (powerToPulse(q) <= us)

\* powerToPulse(130): the pulse width is held at 2000 us.
C31_Witness ==
  /\ last.op = "powerToPulse"
  /\ last.args = <<130>>
  /\ last.code = 2000

\* powerToPulse(-37): between the named points.
C31_WitnessLinear ==
  /\ last.op = "powerToPulse"
  /\ last.args = <<-37>>
  /\ last.code = 1315

----------------------------------------------------------------------------
\* C32: in every state currentPower[i] is in -100..100 for every servo,
\* whatever requests, sequence steps and passes of loop() led there.
C32_PowerInRange ==
  \A i \in Servos : currentPower[i] \in -100..100

\* move(0, +1, step 250) on a servo already at 100: the step is cut to 100 and
\* the sum to 100.
C32_Witness ==
  /\ last.op = "move"
  /\ last.code = 200
  /\ last.args = << <<0>>, <<1>>, <<250>> >>
  /\ last.pre.sv.power[0] = 100
  /\ currentPower[0] = 100

\* The step 1,150,40000 of seq_b.txt has been started: servo 1 is at 100.
C32_WitnessStep ==
  /\ last.op = "loop"
  /\ last.event = "dispatch"
  /\ Len(seqSteps) >= 1
  /\ seqStepCount = 1
  /\ currentPower[1] = 100

----------------------------------------------------------------------------
\* C33: every step in a slot below seqStepCount has its servo in 0..5, its
\* power in -100..100 and its durationMs in 0..30000.  A line idx,power,dur is
\* stored exactly when idx is in 0..5, with power and dur cut to those ranges;
\* a line with any other idx is skipped.
C33_StoredStepsInRange ==
  /\ seqStepCount <= Len(seqSteps)
  /\ \A k \in 1..seqStepCount :
       /\ seqSteps[k].servo \in Servos
       /\ seqSteps[k].power \in -100..100
       /\ seqSteps[k].durationMs \in 0..30000
  /\ (last.op = "ParseSeqLine") =>
       LET idx == last.args[1]
           power == last.args[2]
           dur == last.args[3]
       IN /\ (last.code = 1) = (idx \in Servos)
          /\ (last.code = 1) =>
               /\ last.step.servo = idx
               /\ last.step.power =
                    (IF power < -100 THEN -100 ELSE IF power > 100 THEN 100 ELSE power)
               /\ last.step.durationMs =
                    (IF dur < 0 THEN 0 ELSE IF dur > 30000 THEN 30000 ELSE dur)

\* The line 5,-32868,70000 is stored as servo 5, power -100, 30000 ms.
C33_Witness ==
  /\ last.op = "ParseSeqLine"
  /\ last.args = <<5, -32868, 70000>>
  /\ last.code = 1
  /\ last.step = [servo |-> 5, power |-> -100, durationMs |-> 30000]

\* seq_b.txt (1,150,40000) is loaded: the step stored is 1,100,30000.
C33_WitnessFile ==
  /\ last.op = "seq_run"
  /\ last.code = 200
  /\ seqStepCount = 1
  /\ seqSteps[1] = [servo |-> 1, power |-> 100, durationMs |-> 30000]

\* The line 256,100,0 is skipped.
C33_WitnessSkipped ==
  /\ last.op = "ParseSeqLine"
  /\ last.args = <<256, 100, 0>>
  /\ last.code = 0

----------------------------------------------------------------------------
\* C34: in every state a servo with a pulse armed is attached: no sequence of
\* requests and passes of loop() leaves a pulse armed on a detached servo.
C34_ArmedImpliesAttached ==
  \A i \in Servos : servoPulseActive[i] => servoAttached[i]

\* stop_one(0) on a servo that move had attached and pulsed: it is detached and
\* its pulse is gone.
C34_Witness ==
  /\ last.op = "stop_one"
  /\ last.code = 200
  /\ last.args = << <<0>> >>
  /\ last.pre.sv.pulseActive[0]
  /\ last.pre.sv.attached[0]
  /\ ~servoAttached[0]
  /\ ~servoPulseActive[0]

\* move(0, +1) on a detached servo: it is attached and pulsed.
C34_WitnessMove ==
  /\ last.op = "move"
  /\ last.code = 200
  /\ ~last.pre.sv.attached[0]
  /\ servoAttached[0]
  /\ servoPulseActive[0]

----------------------------------------------------------------------------
\* C35: in every state 0 <= seqStepIndex <= seqStepCount <= 256, seqStepActive
\* holds only while seqRunning does, and seqRunning only with at least one
\* step; a pass of loop() that starts a step found seqStepIndex below
\* seqStepCount, so no slot at or past seqStepCount is ever read.
C35_RunStateWellFormed ==
  /\ 0 <= seqStepIndex
  /\ seqStepIndex <= seqStepCount
  /\ seqStepCount <= MAX_SEQ_STEPS
  /\ seqStepCount <= Len(seqSteps)
  /\ seqStepActive => seqRunning
  /\ seqRunning => (seqStepCount >= 1)
  /\ (last.op = "loop" /\ last.event = "dispatch") =>
       /\ last.pre.sq.index < last.pre.sq.count
       /\ last.pre.sq.index < MAX_SEQ_STEPS

\* The run of seq_big.txt with its 256th and last stored step started: the
\* index has reached the count, at the size of the array.
C35_Witness ==
  /\ seqRunning
  /\ seqStepCount = MAX_SEQ_STEPS
  /\ seqStepIndex = MAX_SEQ_STEPS
  /\ last.op = "loop"
  /\ last.event = "dispatch"
  /\ last.pre.sq.index = MAX_SEQ_STEPS - 1

----------------------------------------------------------------------------
\* Request number n was a stop (stop_all or stop_one) served while the run had
\* step k still to start, and what is left of the step in progress fits in
\* what is left of the clock's range.
StoppedBefore(n, k) ==
  /\ last.op \in {"stop_all", "stop_one"} /\ last.code = 200 /\ reqCount = n
  /\ seqRunning /\ seqStepIndex = k /\ k < seqStepCount
  /\ seqStepActive => (seqStepEndTime - millis <= ClockLeft)

\* loop() has just started step k, with no request since request number n: the
\* step's servo is attached and at the step's power.
StartedAfter(n, k) ==
  /\ last.op = "loop" /\ last.event = "dispatch" /\ reqCount = n
  /\ last.pre.sq.index = k
  /\ LET st == StepAt(seqSteps, k)
     IN servoAttached[st.servo] /\ currentPower[st.servo] = st.power

\* C36: stop_all and stop_one do not end a run.  After one of them is served
\* while the run has a step still to start, and with no request after it, a
\* later pass of loop() starts that step: its servo is attached again and set
\* to the step's power.
C36_StopDoesNotCancelRun ==
  \A n \in 1..(MaxRequests + 1), k \in 0..2 :
    StoppedBefore(n, k) ~> (StartedAfter(n, k) \/ reqCount > n)

\* The first step of seq_a.txt (0,50,10) is started after stop_all had detached
\* every servo: servo 0 is attached again, at 50.
C36_Witness ==
  /\ StartedAfter(2, 0)
  /\ ~last.pre.sv.attached[0]
  /\ \A i \in Servos \ {0} : ~servoAttached[i]
  /\ servoAttached[0]
  /\ currentPower[0] = 50

\* stop_all in the middle of the first step: the second step is started later.
C36_WitnessMidStep ==
  /\ StartedAfter(2, 1)
  /\ ~last.pre.sv.attached[1]
  /\ currentPower[1] = -50
  /\ currentPower[0] = 0

----------------------------------------------------------------------------
\* The steps before step k of the list that are for servo i.
StartedStepsFor(i, k) ==
  {j \in 0..(k - 1) : StepAt(seqSteps, j).servo = i}

\* The one of them started last.
LastStartedFor(i, k) ==
  CHOOSE j \in StartedStepsFor(i, k) : \A m \in StartedStepsFor(i, k) : m <= j

\* C37: the end of a step's time does not put its servo back.  With no request
\* other than the one that loaded the run, during the run every servo that a
\* started step was for is at the power of the last started step that was for
\* it, whether that step's time is over or not; servos of earlier steps go on
\* running while later steps drive other servos.  The pass that ends the run
\* puts every servo to 0.
C37_StepPowerPersists ==
  /\ seqRunning =>
       \A i \in Servos :
         StartedStepsFor(i, seqStepIndex) # {} =>
           currentPower[i] = StepAt(seqSteps, LastStartedFor(i, seqStepIndex)).power
  /\ (last.op = "loop" /\ last.event = "finish") =>
       \A i \in Servos : currentPower[i] = 0

\* seq_a.txt: the first step (0,50,10) ran out some passes ago and the second
\* step (1,-50,0) has been started; servo 0 is still at 50.
C37_Witness ==
  /\ seqRunning
  /\ last.op = "loop" /\ last.event = "dispatch"
  /\ last.pre.sq.index = 1
  /\ ~last.pre.sq.active
  /\ TimeReached(millis, last.pre.sq.endTime)
  /\ currentPower[0] = 50
  /\ currentPower[1] = -50

\* The third step (0,0,10) is in progress on servo 0 and servo 1, whose step
\* had no duration, is still at -50.
C37_WitnessLaterStep ==
  /\ seqRunning /\ seqStepActive
  /\ seqStepIndex = 3
  /\ last.op = "loop" /\ last.event = "wait"
  /\ currentPower[0] = 0
  /\ currentPower[1] = -50

----------------------------------------------------------------------------
\* C38: while a step of non-zero power is in progress on a servo, a pass of
\* loop() before the step's end time leaves that servo's power as it was: a
\* pulse armed on the servo by move or move_angle during the run does not put
\* it to 0 before the step's end time.
C38_PulseSparesActiveStep ==
  LET q == last.pre.sq
      st == StepAt(q.steps, q.index - 1)
  IN (/\ last.op = "loop"
      /\ q.running /\ q.active
      /\ ~TimeReached(millis, q.endTime)
      /\ st.power # 0) =>
       currentPower[st.servo] = last.pre.sv.power[st.servo]

----------------------------------------------------------------------------
\* C39: a servo with an armed pulse has non-zero power; a move request whose
\* resulting power is 0 leaves no pulse armed on its servo.
C39_ArmedImpliesPowered ==
  \A i \in Servos : servoPulseActive[i] => currentPower[i] # 0

====
